---- MODULE Spec2Model ----
(***************************************************************************)
(* bevy_panorbit_camera: the two chained systems of PanOrbitCameraPlugin,  *)
(* active_viewport_data (the active-target resolver) and pan_orbit_camera  *)
(* (the orbit update engine), as a state machine over frames.              *)
(*                                                                         *)
(* Numbers.  f32 values are fixed-point integers in thousandths: lengths,  *)
(* scales, sensitivities and angles (radians) are stored times 1000, so    *)
(* 0.05 is 50 and PI is 3142.  Pixel quantities (pointer motion, window    *)
(* and viewport sizes, cursor positions) are whole pixels.  Smoothness is  *)
(* stored in tenths (8 is 0.8).  Products and quotients truncate toward    *)
(* zero.                                                                   *)
(***************************************************************************)
EXTENDS Integers, Sequences, FiniteSets, TLC

\* ------------------------------------------------------------------------
\* Option<T>, vectors and fixed-point arithmetic
\* ------------------------------------------------------------------------

None == <<>>

Some(v) == <<v>>

IsSome(o) == o # None

Unwrap(o) == o[1]

Abs(x) == IF x >= 0 THEN x ELSE -x

Min(a, b) == IF a <= b THEN a ELSE b

Max(a, b) == IF a >= b THEN a ELSE b

\* integer quotient truncated toward zero, as f32 arithmetic is symmetric in sign
TruncDiv(a, b) == IF a >= 0 THEN a \div b ELSE -((-a) \div b)

\* product and quotient of two values stored in thousandths
FMul(a, b) == TruncDiv(a * b, 1000)

FDiv(a, b) == TruncDiv(a * 1000, b)

\* f32 `%` keeps the sign of the dividend
FRem(a, b) == IF a >= 0 THEN a % b ELSE -((-a) % b)

\* f32::signum: 1.0 for +0.0 and positive values, -1.0 for negative ones
Signum(x) == IF x >= 0 THEN 1 ELSE -1

RECURSIVE SqrtSearch(_, _, _)
SqrtSearch(n, lo, hi) ==
    IF lo >= hi THEN lo
    ELSE LET mid == (lo + hi + 1) \div 2
         IN IF mid * mid <= n THEN SqrtSearch(n, mid, hi) ELSE SqrtSearch(n, lo, mid - 1)

\* floor of the square root
ISqrt(n) == SqrtSearch(n, 0, 46340)

Vec2Zero == <<0, 0>>

Vec3Zero == <<0, 0, 0>>

VAdd(a, b) == [i \in DOMAIN a |-> a[i] + b[i]]

VSub(a, b) == [i \in DOMAIN a |-> a[i] - b[i]]

\* vector times a plain integer factor
VScale(a, k) == [i \in DOMAIN a |-> a[i] * k]

\* vector times a factor stored in thousandths
VMul(a, k) == [i \in DOMAIN a |-> FMul(a[i], k)]

Length3(v) == ISqrt(v[1] * v[1] + v[2] * v[2] + v[3] * v[3])

\* Vec3::normalize_or_zero, the unit vector in thousandths
NormalizeOrZero(v) ==
    LET len == Length3(v)
    IN IF len = 0 THEN Vec3Zero ELSE [i \in DOMAIN v |-> FDiv(v[i], len)]

\* std::f32::consts::PI and TAU, in thousandths of a radian
PI == 3142

TAU == 2 * PI

HalfPi == PI \div 2

\* sine of an angle in [0, PI] (Bhaskara's rational approximation)
SinHalfTurn(x) ==
    LET p == x * (PI - x)
    IN (16 * p) \div ((5 * PI * PI - 4 * p) \div 1000)

Sin(x) ==
    LET r == x % TAU
    IN IF r <= PI THEN SinHalfTurn(r) ELSE -SinHalfTurn(r - PI)

Cos(x) == Sin(x + HalfPi)

RECURSIVE AsinSearch(_, _, _)
AsinSearch(v, lo, hi) ==
    IF lo >= hi THEN lo
    ELSE LET mid == (lo + hi) \div 2
         IN IF Sin(mid) >= v THEN AsinSearch(v, lo, mid) ELSE AsinSearch(v, mid + 1, hi)

\* arcsine of a ratio in thousandths, for angles in [0, PI/2], odd in v
Asin(v) == IF v >= 1000 THEN HalfPi
           ELSE IF v <= -1000 THEN -HalfPi
           ELSE IF v >= 0 THEN AsinSearch(v, 0, HalfPi)
           ELSE -AsinSearch(-v, 0, HalfPi)

Acos(v) == HalfPi - Asin(v)

\* ------------------------------------------------------------------------
\* mod util (the helpers pan_orbit_camera calls)
\* ------------------------------------------------------------------------

\* util::apply_limits: the lower limit is applied first and the upper limit
\* after it, so an inverted pair collapses to the upper bound
apply_limits(value, upper_limit, lower_limit) ==
    LET lowered == IF IsSome(lower_limit) THEN Max(value, Unwrap(lower_limit)) ELSE value
    IN IF IsSome(upper_limit) THEN Min(lowered, Unwrap(upper_limit)) ELSE lowered

\* the distance below which lerp_and_snap returns the target itself
EPSILON == 10

\* util::lerp_and_snap_f32: one step of exponential smoothing with the
\* per-call factor 1 - smoothness, snapped onto the target when within EPSILON
lerp_and_snap_f32(from, to, smoothness) ==
    LET new_value == from + TruncDiv((to - from) * (10 - smoothness), 10)
    IN IF smoothness < 10 /\ Abs(new_value - to) < EPSILON THEN to ELSE new_value

\* util::lerp_and_snap_vec3: the same, component-wise
lerp_and_snap_vec3(from, to, smoothness) ==
    [i \in DOMAIN from |-> lerp_and_snap_f32(from[i], to[i], smoothness)]

\* util::calculate_from_translation_and_focus: (alpha, beta, radius) of a
\* position relative to the focus; radius is the Euclidean distance
calculate_from_translation_and_focus(translation, focus) ==
    LET comp_vec == VSub(translation, focus)
        radius == Length3(comp_vec)
        flat == ISqrt(comp_vec[1] * comp_vec[1] + comp_vec[3] * comp_vec[3])
        alpha == IF flat = 0 THEN 0
                 ELSE LET a == Acos(FDiv(comp_vec[3], flat))
                      IN IF comp_vec[1] < 0 THEN -a ELSE a
        beta == IF radius = 0 THEN 0 ELSE Asin(FDiv(comp_vec[2], radius))
    IN <<alpha, beta, radius>>

\* the direction from the focus to the camera for the angles alpha and beta
OrbitDirection(alpha, beta) ==
    <<FMul(Cos(beta), Sin(alpha)), Sin(beta), FMul(Cos(beta), Cos(alpha))>>

\* util::update_orbit_transform: position = focus + radius * direction, with
\* the rotation (kept as its two angles) looking back at the focus
update_orbit_transform(alpha, beta, radius, focus) ==
    [translation |-> VAdd(focus, VMul(OrbitDirection(alpha, beta), radius)),
     rotation |-> <<alpha, beta>>]

\* Transform::right and Transform::up of a rotation kept as (alpha, beta)
TransformRight(t) == <<Cos(t.rotation[1]), 0, -Sin(t.rotation[1])>>

TransformUp(t) ==
    <<-FMul(Sin(t.rotation[2]), Sin(t.rotation[1])), Cos(t.rotation[2]),
      -FMul(Sin(t.rotation[2]), Cos(t.rotation[1]))>>

\* ------------------------------------------------------------------------
\* State
\* ------------------------------------------------------------------------

VARIABLES
    cams,        \* entity -> its PanOrbitCamera fields with the entity's Camera
                 \* (order, target, viewport), Transform and Projection components
    active_cam,  \* the ActiveCameraData resource
    mouse_input, \* Input<MouseButton>: pressed, just_pressed, just_released
    key_input,   \* Input<KeyCode>: the set of pressed keys
    cursor,      \* Window::cursor_position of the primary window
    events,      \* Events<MouseWheel>, Events<TouchpadMagnify>, Events<TouchpadRotate>:
                 \* both buffer halves, and whether pan_orbit_camera's readers
                 \* have yet to read the older half
    frame,       \* this frame's summed MouseMotion, pointer_over_egui and frame time
    phase,       \* position in the frame: "host", "resolve" or "update"
    frames       \* number of frames started

vars == <<cams, active_cam, mouse_input, key_input, cursor, events, frame, phase, frames>>

\* number of frames a behaviour of Spec runs
MaxFrames == 3

\* logical size of the primary window, in pixels
WindowSize == <<800, 600>>

\* the hard floor of apply_zoom_limits
ZoomFloor == 50

\* impl Default for PanOrbitCamera
DefaultPanOrbitCamera ==
    [focus |-> Vec3Zero, target_focus |-> Vec3Zero,
     radius |-> None, scale |-> None, alpha |-> None, beta |-> None,
     target_alpha |-> 0, target_beta |-> 0, target_radius |-> 1000, target_scale |-> 1000,
     is_upside_down |-> FALSE, allow_upside_down |-> FALSE,
     orbit_sensitivity |-> 1000, orbit_smoothness |-> 8,
     pan_sensitivity |-> 1000, pan_smoothness |-> 6,
     zoom_sensitivity |-> 1000, zoom_smoothness |-> 8,
     button_orbit |-> "Left", button_pan |-> "Right",
     modifier_orbit |-> None, modifier_pan |-> None, modifier_orbit_touchpad |-> None,
     reversed_zoom |-> FALSE, enabled |-> TRUE, initialized |-> FALSE, force_update |-> FALSE,
     alpha_upper_limit |-> None, alpha_lower_limit |-> None,
     beta_upper_limit |-> None, beta_lower_limit |-> None,
     zoom_upper_limit |-> None, zoom_lower_limit |-> None,
     focus_x_upper_limit |-> None, focus_x_lower_limit |-> None,
     focus_y_upper_limit |-> None, focus_y_lower_limit |-> None,
     focus_z_upper_limit |-> None, focus_z_lower_limit |-> None]

\* impl Default for ActiveCameraData (derived)
DefaultActiveCameraData ==
    [entity |-> None, viewport_size |-> None, window_size |-> None, manual |-> FALSE]

\* the components spawned next to a PanOrbitCamera by the documented setup:
\* a Camera3dBundle at (0, 1.5, 5), here with either projection kind
PerspectiveProjection == [kind |-> "Perspective", fov |-> 785, aspect_ratio |-> 1000,
                          scale |-> 1000, area |-> <<2000, 2000>>]

OrthographicProjection == [kind |-> "Orthographic", fov |-> 785, aspect_ratio |-> 1000,
                           scale |-> 1000, area |-> <<2000, 2000>>]

DefaultComponents ==
    [transform |-> [translation |-> <<0, 1500, 5000>>, rotation |-> <<0, 0>>],
     \* change detection: the Transform was mutably accessed in the last update
     transform_changed |-> FALSE,
     projection |-> PerspectiveProjection,
     order |-> 0, target |-> "Window",
     viewport |-> [min |-> <<0, 0>>, max |-> WindowSize]]

\* a camera entity: PanOrbitCamera::default() with the default components
DefaultCamera == DefaultPanOrbitCamera @@ DefaultComponents

IsOrthographic(c) == c.projection.kind = "Orthographic"

\* ------------------------------------------------------------------------
\* pan_orbit_camera, one camera: limits
\* ------------------------------------------------------------------------

apply_zoom_limits(c, zoom) ==
    Max(apply_limits(zoom, c.zoom_upper_limit, c.zoom_lower_limit), ZoomFloor)

apply_alpha_limits(c, alpha) == apply_limits(alpha, c.alpha_upper_limit, c.alpha_lower_limit)

apply_beta_limits(c, beta) == apply_limits(beta, c.beta_upper_limit, c.beta_lower_limit)

apply_focus_limits(c, focus) ==
    <<apply_limits(focus[1], c.focus_x_upper_limit, c.focus_x_lower_limit),
      apply_limits(focus[2], c.focus_y_upper_limit, c.focus_y_lower_limit),
      apply_limits(focus[3], c.focus_z_upper_limit, c.focus_z_lower_limit)>>

\* ------------------------------------------------------------------------
\* pan_orbit_camera, one camera: initialization (first update only)
\* ------------------------------------------------------------------------

\* the orthographic branch: an unset scale is taken from the projection, and
\* the projection's scale and target_scale become the clamped scale
InitializeScale(c, scale) ==
    [c EXCEPT !.scale = Some(scale),
              !.projection.scale = apply_zoom_limits(c, scale),
              !.target_scale = apply_zoom_limits(c, scale)]

\* the initial values are stored, the targets seeded from them and the
\* transform written
InitializeValues(c, alpha, beta, radius) ==
    LET c1 == [c EXCEPT !.alpha = Some(alpha), !.beta = Some(beta), !.radius = Some(radius),
                        !.target_alpha = alpha, !.target_beta = beta,
                        !.target_radius = radius, !.target_focus = c.focus,
                        !.transform = update_orbit_transform(alpha, beta, radius, c.focus),
                        !.transform_changed = TRUE,
                        !.initialized = TRUE]
    IN IF IsOrthographic(c)
       THEN InitializeScale(c1, IF IsSome(c.scale) THEN Unwrap(c.scale)
                                ELSE c.projection.scale)
       ELSE c1

\* Option::get_or_insert keeps a value the user has set; the limits are then
\* applied to whichever value it is
InitializeFrom(c, calc) ==
    InitializeValues(c,
        apply_alpha_limits(c, IF IsSome(c.alpha) THEN Unwrap(c.alpha) ELSE calc[1]),
        apply_beta_limits(c, IF IsSome(c.beta) THEN Unwrap(c.beta) ELSE calc[2]),
        apply_zoom_limits(c, IF IsSome(c.radius) THEN Unwrap(c.radius) ELSE calc[3]))

\* Initialize measuring the position from the origin instead of the focus
Initialize_FromOrigin(c) ==
    IF c.initialized THEN c
    ELSE InitializeFrom(c, calculate_from_translation_and_focus(c.transform.translation,
                                                                Vec3Zero))

Initialize(c) ==
    IF c.initialized THEN c
    ELSE InitializeFrom(c, calculate_from_translation_and_focus(c.transform.translation,
                                                                c.focus))

\* ------------------------------------------------------------------------
\* host input as the systems see it
\* ------------------------------------------------------------------------

\* util::orbit_pressed, orbit_just_pressed, orbit_just_released, pan_pressed,
\* pan_just_pressed: the button of the combination is in the given state
\* while its modifier key, when one is configured, is held
ModifierHeld(modifier) == modifier = None \/ Unwrap(modifier) \in key_input

orbit_pressed(c) == ModifierHeld(c.modifier_orbit) /\ c.button_orbit \in mouse_input.pressed

orbit_just_pressed(c) ==
    ModifierHeld(c.modifier_orbit) /\ c.button_orbit \in mouse_input.just_pressed

orbit_just_released(c) ==
    ModifierHeld(c.modifier_orbit) /\ c.button_orbit \in mouse_input.just_released

pan_pressed(c) == ModifierHeld(c.modifier_pan) /\ c.button_pan \in mouse_input.pressed

pan_just_pressed(c) ==
    ModifierHeld(c.modifier_pan) /\ c.button_pan \in mouse_input.just_pressed

\* EventReader::read in pan_orbit_camera: every buffered event the reader has
\* not read yet, the older buffer half first
Unread(old, new) == (IF events.unread_old THEN old ELSE <<>>) \o new

\* EventReader::is_empty in active_viewport_data, whose reader never reads:
\* false while either buffer half holds a MouseWheel event
ScrollEventsEmpty == events.scroll_old = <<>> /\ events.scroll_new = <<>>

\* ------------------------------------------------------------------------
\* pan_orbit_camera, one camera: 1 - get input
\* ------------------------------------------------------------------------

\* the gate without the enabled check
AcceptsInput_IgnoresEnabled(c, entity) ==
    ~frame.pointer_over_egui /\ active_cam.entity = Some(entity)

\* the gate open for every enabled camera while the record names any camera
AcceptsInput_AnyCamera(c, entity) ==
    ~frame.pointer_over_egui /\ c.enabled /\ IsSome(active_cam.entity)

\* the gate of input gathering
AcceptsInput(c, entity) ==
    ~frame.pointer_over_egui /\ c.enabled /\ active_cam.entity = Some(entity)

NoInput ==
    [pan |-> Vec2Zero, rotation_move |-> Vec2Zero, scroll_line |-> 0, scroll_pixel |-> 0,
     orbit_button_changed |-> FALSE]

\* ScrollStep routing a pixel event to rotation whenever a touchpad modifier
\* is configured, held or not
ScrollStep_ModifierConfigured(c, acc, ev) ==
    IF ev.unit = "Line"
    THEN LET direction == IF c.reversed_zoom THEN -1 ELSE 1
         IN [acc EXCEPT !.scroll_line = @ + FMul(ev.y * direction, c.zoom_sensitivity)]
    ELSE IF IsSome(c.modifier_orbit_touchpad)
         THEN [acc EXCEPT !.rotation_move =
                  VAdd(@, VMul(<<ev.x, ev.y>>, c.orbit_sensitivity))]
         ELSE [acc EXCEPT !.pan = VAdd(@, VMul(<<ev.x, ev.y>>, c.pan_sensitivity))]

\* one MouseWheel event added to the accumulators
ScrollStep(c, acc, ev) ==
    IF ev.unit = "Line"
    THEN LET direction == IF c.reversed_zoom THEN -1 ELSE 1
         IN [acc EXCEPT !.scroll_line = @ + FMul(ev.y * direction, c.zoom_sensitivity)]
    ELSE LET orbit == IsSome(c.modifier_orbit_touchpad)
                      /\ Unwrap(c.modifier_orbit_touchpad) \in key_input
         IN IF orbit
            THEN [acc EXCEPT !.rotation_move =
                     VAdd(@, VMul(<<ev.x, ev.y>>, c.orbit_sensitivity))]
            ELSE [acc EXCEPT !.pan = VAdd(@, VMul(<<ev.x, ev.y>>, c.pan_sensitivity))]

RECURSIVE ScrollFold(_, _, _)
ScrollFold(c, acc, evs) ==
    IF evs = <<>> THEN acc ELSE ScrollFold(c, ScrollStep(c, acc, Head(evs)), Tail(evs))

RECURSIVE SumSeq(_)
SumSeq(s) == IF s = <<>> THEN 0 ELSE Head(s) + SumSeq(Tail(s))

GatherInput(c, entity) ==
    IF ~AcceptsInput(c, entity) THEN NoInput
    ELSE
      LET mouse_delta == frame.mouse_delta
          a0 == IF orbit_pressed(c)
                THEN [NoInput EXCEPT !.rotation_move = VMul(mouse_delta, c.orbit_sensitivity)]
                ELSE IF pan_pressed(c)
                THEN [NoInput EXCEPT !.pan = VMul(mouse_delta, c.pan_sensitivity)]
                ELSE NoInput
          a1 == ScrollFold(c, a0, Unread(events.scroll_old, events.scroll_new))
          zoom == SumSeq(Unread(events.magnify_old, events.magnify_new))
          a2 == [a1 EXCEPT !.scroll_pixel = FMul(zoom, c.zoom_sensitivity) * 2]
          rotate == SumSeq(Unread(events.rotate_old, events.rotate_new))
          a3 == [a2 EXCEPT !.rotation_move[1] = @ + FMul(rotate, c.orbit_sensitivity) * 3]
      IN [a3 EXCEPT !.orbit_button_changed = orbit_just_pressed(c) \/ orbit_just_released(c)]

\* ------------------------------------------------------------------------
\* pan_orbit_camera, one camera: 2 - process input into targets
\* ------------------------------------------------------------------------

\* UpsideDownCheck recomputing the flag in every tick
UpsideDownCheck_EveryTick(c, input) ==
    LET wrapped_beta == Abs(FRem(c.target_beta, TAU))
    IN [c EXCEPT !.is_upside_down =
            wrapped_beta > TAU \div 4 /\ wrapped_beta < (3 * TAU) \div 4]

\* UpsideDownCheck recomputing the flag when the press starts but not when it ends
UpsideDownCheck_OnPressOnly(c, input) ==
    IF input.orbit_button_changed /\ orbit_just_pressed(c)
    THEN LET wrapped_beta == Abs(FRem(c.target_beta, TAU))
         IN [c EXCEPT !.is_upside_down =
                 wrapped_beta > TAU \div 4 /\ wrapped_beta < (3 * TAU) \div 4]
    ELSE c

UpsideDownCheck(c, input) ==
    IF input.orbit_button_changed
    THEN LET wrapped_beta == Abs(FRem(c.target_beta, TAU))
         IN [c EXCEPT !.is_upside_down =
                 wrapped_beta > TAU \div 4 /\ wrapped_beta < (3 * TAU) \div 4]
    ELSE c

\* rotation_move in thousandths of a pixel against the window size
ApplyRotation(c, rotation_move, win_size) ==
    LET delta == FMul(TruncDiv(rotation_move[1], win_size[1]), PI) * 2
        delta_x == IF c.is_upside_down THEN -delta ELSE delta
        delta_y == FMul(TruncDiv(rotation_move[2], win_size[2]), PI)
    IN [c EXCEPT !.target_alpha = @ - delta_x, !.target_beta = @ + delta_y]

\* pan in thousandths of a pixel against the viewport size
ApplyPan(c, pan0, vp_size) ==
    LET ratio == <<TruncDiv(pan0[1], vp_size[1]), TruncDiv(pan0[2], vp_size[2])>>
        pan == IF IsOrthographic(c)
               THEN <<FMul(ratio[1], c.projection.area[1]), FMul(ratio[2], c.projection.area[2])>>
               ELSE <<FMul(ratio[1], FMul(c.projection.fov, c.projection.aspect_ratio)),
                      FMul(ratio[2], c.projection.fov)>>
        multiplier == IF ~IsOrthographic(c) /\ IsSome(c.radius) THEN Unwrap(c.radius) ELSE 1000
        \* lock the pan directions within the bounded box
        right_dir == NormalizeOrZero(VSub(
            apply_focus_limits(c, VAdd(c.target_focus,
                                       VScale(TransformRight(c.transform), Signum(pan[1])))),
            c.target_focus))
        up_dir == NormalizeOrZero(VSub(
            apply_focus_limits(c, VAdd(c.target_focus,
                                       VScale(TransformUp(c.transform), Signum(pan[2])))),
            c.target_focus))
        \* translate by local axes
        right == VMul(right_dir, -pan[1] * Signum(pan[1]))
        up == VMul(up_dir, pan[2] * Signum(pan[2]))
        translation == VMul(VAdd(right, up), multiplier)
    IN [c EXCEPT !.target_focus = VAdd(@, translation)]

\* ApplyMove applying the rotation and the pan of the same tick
ApplyMove_Both(c, input) ==
    LET rotated == IF input.rotation_move # Vec2Zero /\ IsSome(active_cam.window_size)
                   THEN ApplyRotation(c, input.rotation_move, Unwrap(active_cam.window_size))
                   ELSE c
    IN IF input.pan # Vec2Zero /\ IsSome(active_cam.viewport_size)
       THEN [c |-> ApplyPan(rotated, input.pan, Unwrap(active_cam.viewport_size)),
             has_moved |-> TRUE]
       ELSE [c |-> rotated, has_moved |-> rotated # c]

\* rotation takes precedence over pan; either needs the size it is scaled by
ApplyMove(c, input) ==
    IF input.rotation_move # Vec2Zero
    THEN IF IsSome(active_cam.window_size)
         THEN [c |-> ApplyRotation(c, input.rotation_move, Unwrap(active_cam.window_size)),
               has_moved |-> TRUE]
         ELSE [c |-> c, has_moved |-> FALSE]
    ELSE IF input.pan # Vec2Zero
    THEN IF IsSome(active_cam.viewport_size)
         THEN [c |-> ApplyPan(c, input.pan, Unwrap(active_cam.viewport_size)),
               has_moved |-> TRUE]
         ELSE [c |-> c, has_moved |-> FALSE]
    ELSE [c |-> c, has_moved |-> FALSE]

\* ApplyZoom adding the scroll amount itself instead of a share of the target
ApplyZoom_Additive(m, input) ==
    IF Abs(input.scroll_line + input.scroll_pixel) > 0
    THEN LET c == m.c
             target_value == IF IsOrthographic(c) THEN c.target_scale ELSE c.target_radius
             value == IF IsOrthographic(c) THEN c.scale ELSE c.radius
             line_delta == TruncDiv(-input.scroll_line * 2, 10)
             pixel_delta == TruncDiv(-input.scroll_pixel * 2, 10)
             new_target == target_value + line_delta + pixel_delta
             new_value == IF IsSome(value)
                          THEN Some(apply_zoom_limits(c, Unwrap(value) + pixel_delta))
                          ELSE None
         IN [c |-> IF IsOrthographic(c)
                   THEN [c EXCEPT !.target_scale = new_target, !.scale = new_value]
                   ELSE [c EXCEPT !.target_radius = new_target, !.radius = new_value],
             has_moved |-> TRUE]
    ELSE m

\* ApplyZoom adding every delta to the target only
ApplyZoom_TargetOnly(m, input) ==
    IF Abs(input.scroll_line + input.scroll_pixel) > 0
    THEN LET c == m.c
             target_value == IF IsOrthographic(c) THEN c.target_scale ELSE c.target_radius
             line_delta == TruncDiv(FMul(-input.scroll_line, target_value) * 2, 10)
             pixel_delta == TruncDiv(FMul(-input.scroll_pixel, target_value) * 2, 10)
             new_target == target_value + line_delta + pixel_delta
         IN [c |-> IF IsOrthographic(c)
                   THEN [c EXCEPT !.target_scale = new_target]
                   ELSE [c EXCEPT !.target_radius = new_target],
             has_moved |-> TRUE]
    ELSE m

ApplyZoom(m, input) ==
    IF Abs(input.scroll_line + input.scroll_pixel) > 0
    THEN LET c == m.c
             target_value == IF IsOrthographic(c) THEN c.target_scale ELSE c.target_radius
             value == IF IsOrthographic(c) THEN c.scale ELSE c.radius
             line_delta == TruncDiv(FMul(-input.scroll_line, target_value) * 2, 10)
             pixel_delta == TruncDiv(FMul(-input.scroll_pixel, target_value) * 2, 10)
             new_target == target_value + line_delta + pixel_delta
             \* pixel-based scrolling is added directly to the current value
             new_value == IF IsSome(value)
                          THEN Some(apply_zoom_limits(c, Unwrap(value) + pixel_delta))
                          ELSE None
         IN [c |-> IF IsOrthographic(c)
                   THEN [c EXCEPT !.target_scale = new_target, !.scale = new_value]
                   ELSE [c EXCEPT !.target_radius = new_target, !.radius = new_value],
             has_moved |-> TRUE]
    ELSE m

\* ------------------------------------------------------------------------
\* pan_orbit_camera, one camera: 3 - apply constraints
\* ------------------------------------------------------------------------

\* ApplyConstraints without the clamp of target_focus
ApplyConstraints_NoFocusClamp(c) ==
    [c EXCEPT !.target_alpha = apply_alpha_limits(c, c.target_alpha),
              !.target_beta = IF ~c.allow_upside_down
                              THEN apply_limits(apply_beta_limits(c, c.target_beta),
                                                Some(HalfPi), Some(-HalfPi))
                              ELSE apply_beta_limits(c, c.target_beta),
              !.target_radius = apply_zoom_limits(c, c.target_radius),
              !.target_scale = apply_zoom_limits(c, c.target_scale)]

\* ApplyConstraints without the hard clamp of target_beta
ApplyConstraints_NoHardClamp(c) ==
    [c EXCEPT !.target_alpha = apply_alpha_limits(c, c.target_alpha),
              !.target_beta = apply_beta_limits(c, c.target_beta),
              !.target_radius = apply_zoom_limits(c, c.target_radius),
              !.target_scale = apply_zoom_limits(c, c.target_scale),
              !.target_focus = apply_focus_limits(c, c.target_focus)]

ApplyConstraints(c) ==
    LET beta == apply_beta_limits(c, c.target_beta)
    IN [c EXCEPT !.target_alpha = apply_alpha_limits(c, c.target_alpha),
                 !.target_beta = IF ~c.allow_upside_down
                                 THEN apply_limits(beta, Some(HalfPi), Some(-HalfPi))
                                 ELSE beta,
                 !.target_radius = apply_zoom_limits(c, c.target_radius),
                 !.target_scale = apply_zoom_limits(c, c.target_scale),
                 !.target_focus = apply_focus_limits(c, c.target_focus)]

\* ------------------------------------------------------------------------
\* pan_orbit_camera, one camera: 4 - update the transform
\* ------------------------------------------------------------------------

\* ShouldUpdate true in every tick of a camera that has its position
ShouldUpdate_Always(c, has_moved) ==
    IsSome(c.alpha) /\ IsSome(c.beta) /\ IsSome(c.radius)

\* ShouldUpdate without the comparison of target_scale with scale
ShouldUpdate_IgnoresScale(c, has_moved) ==
    /\ IsSome(c.alpha) /\ IsSome(c.beta) /\ IsSome(c.radius)
    /\ \/ has_moved
       \/ c.target_alpha # Unwrap(c.alpha)
       \/ c.target_beta # Unwrap(c.beta)
       \/ c.target_radius # Unwrap(c.radius)
       \/ c.target_focus # c.focus
       \/ c.force_update

\* ShouldUpdate without the force_update disjunct
ShouldUpdate_IgnoresForce(c, has_moved) ==
    /\ IsSome(c.alpha) /\ IsSome(c.beta) /\ IsSome(c.radius)
    /\ \/ has_moved
       \/ c.target_alpha # Unwrap(c.alpha)
       \/ c.target_beta # Unwrap(c.beta)
       \/ c.target_radius # Unwrap(c.radius)
       \/ c.target_focus # c.focus
       \/ Some(c.target_scale) # c.scale

\* ShouldUpdate triggered by input or force_update alone
ShouldUpdate_OnlyWhenMoved(c, has_moved) ==
    /\ IsSome(c.alpha) /\ IsSome(c.beta) /\ IsSome(c.radius)
    /\ (has_moved \/ c.force_update)

\* whether this tick interpolates and writes the transform
ShouldUpdate(c, has_moved) ==
    /\ IsSome(c.alpha) /\ IsSome(c.beta) /\ IsSome(c.radius)
    /\ \/ has_moved
       \/ c.target_alpha # Unwrap(c.alpha)
       \/ c.target_beta # Unwrap(c.beta)
       \/ c.target_radius # Unwrap(c.radius)
       \/ c.target_focus # c.focus
       \/ Some(c.target_scale) # c.scale
       \/ c.force_update

\* the smoothing calls of the tick: each passes the current value, the target
\* and the smoothness of its kind.  dt is the frame time of the tick, which
\* the system does not take as a parameter and passes to none of them
\* SmoothOrbit taking the smoothness of the zoom
SmoothOrbit_FromZoom(c, from, to, dt) == lerp_and_snap_f32(from, to, c.zoom_smoothness)

SmoothOrbit(c, from, to, dt) == lerp_and_snap_f32(from, to, c.orbit_smoothness)

\* SmoothZoom made frame-rate-aware: a frame of twice the usual length takes
\* two smoothing steps
SmoothZoom_FrameRateAware(c, from, to, dt) ==
    IF dt > 16
    THEN lerp_and_snap_f32(lerp_and_snap_f32(from, to, c.zoom_smoothness), to,
                           c.zoom_smoothness)
    ELSE lerp_and_snap_f32(from, to, c.zoom_smoothness)

SmoothZoom(c, from, to, dt) == lerp_and_snap_f32(from, to, c.zoom_smoothness)

SmoothPan(c, from, to, dt) == lerp_and_snap_vec3(from, to, c.pan_smoothness)

UpdateTransform(c, has_moved) ==
    IF ShouldUpdate(c, has_moved)
    THEN LET dt == frame.delta_seconds
             new_alpha == SmoothOrbit(c, Unwrap(c.alpha), c.target_alpha, dt)
             new_beta == SmoothOrbit(c, Unwrap(c.beta), c.target_beta, dt)
             new_radius == SmoothZoom(c, Unwrap(c.radius), c.target_radius, dt)
             new_scale == SmoothZoom(c, IF IsSome(c.scale) THEN Unwrap(c.scale)
                                        ELSE c.target_scale, c.target_scale, dt)
             new_focus == SmoothPan(c, c.focus, c.target_focus, dt)
         IN [c EXCEPT !.projection.scale = IF IsOrthographic(c) THEN new_scale ELSE @,
                      !.transform = update_orbit_transform(new_alpha, new_beta, new_radius,
                                                           new_focus),
                      !.transform_changed = TRUE,
                      !.alpha = Some(new_alpha), !.beta = Some(new_beta),
                      !.radius = Some(new_radius), !.scale = Some(new_scale),
                      !.focus = new_focus, !.force_update = FALSE]
    ELSE c

\* 3 and 4: the constraints, then the commit
ConstrainAndUpdate(moved) == UpdateTransform(ApplyConstraints(moved.c), moved.has_moved)

\* 2: the input is processed into the targets
ProcessInput(c, input) ==
    ConstrainAndUpdate(ApplyZoom(ApplyMove(UpsideDownCheck(c, input), input), input))

\* 1: the input is gathered for the initialized camera
GatherAndProcess(c, entity) == ProcessInput(c, GatherInput(c, entity))

\* the body of the loop over the cameras, for one camera
UpdateCamera(c, entity) ==
    GatherAndProcess(Initialize([c EXCEPT !.transform_changed = FALSE]), entity)

\* ------------------------------------------------------------------------
\* active_viewport_data
\* ------------------------------------------------------------------------

\* the initial best draw order of the scan
InitialMaxCamOrder == 0

\* the containment test with the edges of the rectangle included
CursorInViewport_Inclusive(cursor_pos, rect) ==
    /\ cursor_pos[1] >= rect.min[1] /\ cursor_pos[1] <= rect.max[1]
    /\ cursor_pos[2] >= rect.min[2] /\ cursor_pos[2] <= rect.max[2]

\* the strict containment test of the cursor in a logical viewport rectangle
CursorInViewport(cursor_pos, rect) ==
    /\ cursor_pos[1] > rect.min[1] /\ cursor_pos[1] < rect.max[1]
    /\ cursor_pos[2] > rect.min[2] /\ cursor_pos[2] < rect.max[2]

InputJustActivated(c) ==
    orbit_just_pressed(c) \/ pan_just_pressed(c) \/ ~ScrollEventsEmpty

\* ScanCamera passing over the cameras that are not enabled
ScanCamera_SkipsDisabled(st, entity) ==
    LET c == cams[entity]
    IN IF ~InputJustActivated(c) \/ ~c.enabled THEN st
       ELSE LET st1 == [st EXCEPT !.has_input = TRUE]
            IN IF /\ c.target = "Window"
                  /\ IsSome(cursor)
                  /\ CursorInViewport(Unwrap(cursor), c.viewport)
                  /\ c.order >= st.max_cam_order
               THEN [st1 EXCEPT
                       !.new_resource =
                           [entity |-> Some(entity),
                            viewport_size |-> Some(VSub(c.viewport.max, c.viewport.min)),
                            window_size |-> Some(WindowSize),
                            manual |-> FALSE],
                       !.max_cam_order = c.order]
               ELSE st1

\* one iteration of the loop over the cameras
ScanCamera(st, entity) ==
    LET c == cams[entity]
    IN IF ~InputJustActivated(c) THEN st
       ELSE LET st1 == [st EXCEPT !.has_input = TRUE]
            IN IF /\ c.target = "Window"
                  /\ IsSome(cursor)
                  /\ CursorInViewport(Unwrap(cursor), c.viewport)
                  /\ c.order >= st.max_cam_order
               THEN [st1 EXCEPT
                       !.new_resource =
                           [entity |-> Some(entity),
                            viewport_size |-> Some(VSub(c.viewport.max, c.viewport.min)),
                            window_size |-> Some(WindowSize),
                            manual |-> FALSE],
                       !.max_cam_order = c.order]
               ELSE st1

RECURSIVE ScanCameras(_, _)
ScanCameras(st, order) ==
    IF order = <<>> THEN st ELSE ScanCameras(ScanCamera(st, Head(order)), Tail(order))

\* Resolve writing the scan's result whether or not there was input
Resolve_AlwaysWrites(order) ==
    ScanCameras([new_resource |-> DefaultActiveCameraData,
                 max_cam_order |-> InitialMaxCamOrder,
                 has_input |-> FALSE], order).new_resource

\* the result of the scan for one iteration order of the query
Resolve(order) ==
    LET st == ScanCameras([new_resource |-> DefaultActiveCameraData,
                           max_cam_order |-> InitialMaxCamOrder,
                           has_input |-> FALSE], order)
    IN IF st.has_input THEN st.new_resource ELSE active_cam

\* the iteration orders of a query over the entities
QueryOrders(entities) ==
    {o \in [1..Cardinality(entities) -> entities] :
        \A i, j \in 1..Cardinality(entities) : i # j => o[i] # o[j]}

\* a run condition that ignores manual
RunCondition_Always == TRUE

\* run_if(|active_cam| !active_cam.manual)
RunCondition == ~active_cam.manual

\* the two systems in the opposite order: pan_orbit_camera runs on the record
\* of the frame before, then the record is resolved
ActiveViewportData_EngineFirst ==
    /\ phase = "resolve"
    /\ RunCondition
    /\ cams' = [e \in DOMAIN cams |-> UpdateCamera(cams[e], e)]
    /\ events' = IF \E e \in DOMAIN cams : AcceptsInput(cams[e], e)
                 THEN [events EXCEPT !.unread_old = FALSE, !.read_new = TRUE]
                 ELSE events
    /\ \E order \in QueryOrders(DOMAIN cams) : active_cam' = Resolve(order)
    /\ phase' = "between"
    /\ UNCHANGED <<mouse_input, key_input, cursor, frame, frames>>

\* the system runs: its run condition holds
ActiveViewportData ==
    /\ phase = "resolve"
    /\ RunCondition
    /\ \E order \in QueryOrders(DOMAIN cams) : active_cam' = Resolve(order)
    /\ phase' = "update"
    /\ UNCHANGED <<cams, mouse_input, key_input, cursor, events, frame, frames>>

\* the run condition fails: the system is skipped this frame
ActiveViewportDataSkipped ==
    /\ phase = "resolve"
    /\ ~RunCondition
    /\ phase' = "update"
    /\ UNCHANGED <<cams, active_cam, mouse_input, key_input, cursor, events, frame, frames>>

\* ------------------------------------------------------------------------
\* pan_orbit_camera
\* ------------------------------------------------------------------------

\* the readers are read by the camera that passes the gate, if any
ReadersRead == \E e \in DOMAIN cams : AcceptsInput(cams[e], e)

PanOrbitCameraSystem ==
    /\ phase = "update"
    /\ cams' = [e \in DOMAIN cams |-> UpdateCamera(cams[e], e)]
    /\ events' = IF ReadersRead
                 THEN [events EXCEPT !.unread_old = FALSE, !.read_new = TRUE]
                 ELSE events
    /\ phase' = "between"
    /\ UNCHANGED <<active_cam, mouse_input, key_input, cursor, frame, frames>>

\* ------------------------------------------------------------------------
\* the host: one frame's input, delivered before the systems run
\* ------------------------------------------------------------------------

NoEvents ==
    [scroll_old |-> <<>>, scroll_new |-> <<>>, magnify_old |-> <<>>, magnify_new |-> <<>>,
     rotate_old |-> <<>>, rotate_new |-> <<>>, unread_old |-> FALSE, read_new |-> FALSE]

\* a frame without input, at the usual frame time (milliseconds)
QuietFrame ==
    [pressed |-> {}, keys |-> {}, cursor |-> None, mouse_delta |-> Vec2Zero,
     scroll |-> <<>>, magnify |-> <<>>, rotate |-> <<>>,
     pointer_over_egui |-> FALSE, delta_seconds |-> 16]

LineScroll(y) == [unit |-> "Line", x |-> 0, y |-> y]

PixelScroll(x, y) == [unit |-> "Pixel", x |-> x, y |-> y]

\* the cursor positions used: inside the window's middle, or off the window
CursorInside == Some(<<400, 300>>)

\* Input::press/release and Events::update as the host applies them for the
\* frame h, then the frame's systems start; a behaviour runs max_frames frames
HostFrame(h, max_frames) ==
    /\ phase \in {"between", "external"}
    /\ frames < max_frames
    /\ frames' = frames + 1
    /\ mouse_input' = [pressed |-> h.pressed,
                       just_pressed |-> h.pressed \ mouse_input.pressed,
                       just_released |-> mouse_input.pressed \ h.pressed]
    /\ key_input' = h.keys
    /\ cursor' = h.cursor
    /\ events' = [scroll_old |-> events.scroll_new, scroll_new |-> h.scroll,
                  magnify_old |-> events.magnify_new, magnify_new |-> h.magnify,
                  rotate_old |-> events.rotate_new, rotate_new |-> h.rotate,
                  unread_old |-> ~events.read_new, read_new |-> FALSE]
    /\ frame' = [mouse_delta |-> h.mouse_delta, pointer_over_egui |-> h.pointer_over_egui,
                 delta_seconds |-> h.delta_seconds]
    /\ phase' = "resolve"
    /\ UNCHANGED <<cams, active_cam>>

\* ------------------------------------------------------------------------
\* external code between two frames (at most one mutation per gap)
\* ------------------------------------------------------------------------

\* force_update set for a direct override
ExternalForceUpdate ==
    /\ phase = "between"
    /\ \E e \in DOMAIN cams : cams' = [cams EXCEPT ![e].force_update = TRUE]
    /\ phase' = "external"
    /\ UNCHANGED <<active_cam, mouse_input, key_input, cursor, events, frame, frames>>

\* the zoom target of a camera set programmatically
ExternalSetTarget ==
    /\ phase = "between"
    /\ \E e \in DOMAIN cams, v \in {10, 3000} :
          cams' = [cams EXCEPT ![e].target_radius = v, ![e].target_scale = v]
    /\ phase' = "external"
    /\ UNCHANGED <<active_cam, mouse_input, key_input, cursor, events, frame, frames>>

\* the orbit and focus targets of a camera set programmatically
ExternalAimTarget ==
    /\ phase = "between"
    /\ \E e \in DOMAIN cams :
          cams' = [cams EXCEPT ![e].target_alpha = 2500, ![e].target_beta = -2000,
                               ![e].target_focus = <<2000, -2000, 100>>]
    /\ phase' = "external"
    /\ UNCHANGED <<active_cam, mouse_input, key_input, cursor, events, frame, frames>>

\* a limit of a camera tightened at run time
ExternalTightenLimit ==
    /\ phase = "between"
    /\ \E e \in DOMAIN cams :
          cams' = [cams EXCEPT ![e].alpha_upper_limit = Some(-500)]
    /\ phase' = "external"
    /\ UNCHANGED <<active_cam, mouse_input, key_input, cursor, events, frame, frames>>

\* external code takes over the resource (manual = true) and names a camera
ExternalTakeOver ==
    /\ phase = "between"
    /\ ~active_cam.manual
    /\ \E e \in DOMAIN cams :
          active_cam' = [entity |-> Some(e), viewport_size |-> Some(WindowSize),
                         window_size |-> Some(WindowSize), manual |-> TRUE]
    /\ phase' = "external"
    /\ UNCHANGED <<cams, mouse_input, key_input, cursor, events, frame, frames>>

\* ------------------------------------------------------------------------
\* Specification Spec: the life of one camera from its creation, for the
\* ways a camera can be configured at creation, under zoom input, quiet
\* frames of two lengths and external overrides
\* ------------------------------------------------------------------------

\* what the creator may preset besides the defaults
Presets ==
    { \* nothing: everything is derived on the first update
      [initialized |-> FALSE, alpha |-> None, beta |-> None, radius |-> None, scale |-> None],
      \* initial values given, some below the zoom floor
      [initialized |-> FALSE, alpha |-> Some(500), beta |-> Some(300), radius |-> Some(20),
       scale |-> Some(10)],
      \* initialized = true with the position given: animate towards the targets
      [initialized |-> TRUE, alpha |-> Some(0), beta |-> Some(0), radius |-> Some(5000),
       scale |-> None],
      \* initialized = true with nothing given
      [initialized |-> TRUE, alpha |-> None, beta |-> None, radius |-> None, scale |-> None] }

ZoomLimits ==
    { [zoom_lower_limit |-> None, zoom_upper_limit |-> None],
      [zoom_lower_limit |-> Some(2000), zoom_upper_limit |-> Some(8000)] }

Smoothnesses ==
    { [orbit_smoothness |-> 8, pan_smoothness |-> 6, zoom_smoothness |-> 8],
      [orbit_smoothness |-> 0, pan_smoothness |-> 0, zoom_smoothness |-> 0] }

\* r's fields over those of c
With(c, r) == [f \in DOMAIN c |-> IF f \in DOMAIN r THEN r[f] ELSE c[f]]

CreatedCameras ==
    { With(With(With([DefaultCamera EXCEPT !.projection = proj], pre), lim), sm) :
        proj \in {PerspectiveProjection, OrthographicProjection},
        pre \in Presets, lim \in ZoomLimits, sm \in Smoothnesses }

\* frames of the zoom devices, with the cursor on the camera's viewport
ZoomFrames ==
    { QuietFrame,
      [QuietFrame EXCEPT !.delta_seconds = 33],
      [QuietFrame EXCEPT !.cursor = CursorInside, !.scroll = <<LineScroll(1000)>>],
      [QuietFrame EXCEPT !.cursor = CursorInside, !.scroll = <<LineScroll(-1000)>>,
                         !.magnify = <<2000>>, !.delta_seconds = 33] }

\* the state of the host before the first frame: Input and Events are empty
HostIdle ==
    /\ mouse_input = [pressed |-> {}, just_pressed |-> {}, just_released |-> {}]
    /\ key_input = {}
    /\ cursor = None
    /\ events = NoEvents
    /\ frame = [mouse_delta |-> Vec2Zero, pointer_over_egui |-> FALSE, delta_seconds |-> 16]
    /\ phase = "between"
    /\ frames = 0

\* init_resource::<ActiveCameraData>() with the idle host
HostQuiet == active_cam = DefaultActiveCameraData /\ HostIdle

Init ==
    /\ cams \in [{1} -> CreatedCameras]
    /\ HostQuiet

Next ==
    \/ \E h \in ZoomFrames : HostFrame(h, MaxFrames)
    \/ ActiveViewportData
    \/ PanOrbitCameraSystem
    \/ ExternalForceUpdate
    \/ ExternalSetTarget

Spec == Init /\ [][Next]_vars

\* ------------------------------------------------------------------------
\* Specification SpecGate: two cameras side by side in one window, camera 1
\* enabled or not, under frames that drive every input device at once, with
\* and without the pointer over the UI or on the window
\* ------------------------------------------------------------------------

\* number of frames a behaviour of SpecGate runs
MaxGateFrames == 2

LeftHalf == [min |-> <<0, 0>>, max |-> <<400, 600>>]

RightHalf == [min |-> <<400, 0>>, max |-> <<800, 600>>]

CursorLeft == Some(<<200, 300>>)

GateLimits ==
    [zoom_lower_limit |-> Some(2000), zoom_upper_limit |-> Some(8000),
     alpha_lower_limit |-> Some(-1000), alpha_upper_limit |-> Some(1000),
     focus_x_lower_limit |-> Some(-500), focus_x_upper_limit |-> Some(500)]

GateCameras ==
    { With(With(With([DefaultCamera EXCEPT !.viewport = LeftHalf], pre), lim),
           [enabled |-> en]) :
        pre \in { [initialized |-> FALSE],
                  [initialized |-> TRUE, alpha |-> Some(0), beta |-> Some(0),
                   radius |-> Some(5000), target_radius |-> 5000] },
        lim \in {[zoom_lower_limit |-> None], GateLimits},
        en \in BOOLEAN }

\* every device at once: a drag with the orbit button, a wheel click, a pinch
\* and a rotate gesture
OrbitFrame ==
    [QuietFrame EXCEPT !.pressed = {"Left"}, !.cursor = CursorLeft,
                       !.mouse_delta = <<200000, 100000>>,
                       !.scroll = <<LineScroll(-1000)>>,
                       !.magnify = <<500>>, !.rotate = <<300>>]

\* a drag with the pan button and a touchpad (pixel) scroll
PanFrame ==
    [QuietFrame EXCEPT !.pressed = {"Right"}, !.cursor = CursorLeft,
                       !.mouse_delta = <<100000, -50000>>,
                       !.scroll = <<PixelScroll(30000, 20000)>>]

GateFrames ==
    { QuietFrame, OrbitFrame, PanFrame,
      [OrbitFrame EXCEPT !.pointer_over_egui = TRUE],
      [PanFrame EXCEPT !.pointer_over_egui = TRUE],
      [OrbitFrame EXCEPT !.cursor = None] }

InitGate ==
    /\ \E c \in GateCameras :
          cams = (1 :> c) @@ (2 :> [DefaultCamera EXCEPT !.viewport = RightHalf])
    /\ HostQuiet

NextGate ==
    \/ \E h \in GateFrames : HostFrame(h, MaxGateFrames)
    \/ ActiveViewportData
    \/ PanOrbitCameraSystem
    \/ ExternalSetTarget

SpecGate == InitGate /\ [][NextGate]_vars

\* ------------------------------------------------------------------------
\* Specification SpecResolver: two cameras whose viewports overlap in the
\* middle of one window, for several draw orders, render targets and
\* bindings, with the pointer on either side, in the overlap, on an edge or
\* off the window, and external code that may take the record over
\* ------------------------------------------------------------------------

\* number of frames a behaviour of SpecResolver runs
MaxResolverFrames == 2

LeftPart == [min |-> <<0, 0>>, max |-> <<500, 600>>]

RightPart == [min |-> <<300, 0>>, max |-> <<800, 600>>]

\* (order of camera 1, order of camera 2): distinct, swapped, tied, negative
DrawOrders == { <<0, 1>>, <<1, 0>>, <<0, 0>>, <<-1, 0>> }

\* camera 2 renders to the window or to an image, and may orbit with
\* another button than camera 1
SecondCameras ==
    { With([DefaultCamera EXCEPT !.viewport = RightPart], r) :
        r \in { [target |-> "Window"], [target |-> "Image"],
                [button_orbit |-> "Middle"] } }

\* left of the overlap, in the overlap, right of it, on the right edge of
\* camera 1, off the window
ResolverCursors ==
    { Some(<<200, 300>>), Some(<<400, 300>>), Some(<<650, 300>>), Some(<<500, 300>>), None }

\* no input, a press of the orbit button, a press of the pan button, a wheel
\* click, and motion with a pinch (which activates nothing)
ResolverInputs ==
    { QuietFrame,
      [QuietFrame EXCEPT !.pressed = {"Left"}],
      [QuietFrame EXCEPT !.pressed = {"Right"}],
      [QuietFrame EXCEPT !.scroll = <<LineScroll(1000)>>],
      [QuietFrame EXCEPT !.mouse_delta = <<50000, 0>>, !.magnify = <<500>>] }

ResolverFrames == { [h EXCEPT !.cursor = p] : h \in ResolverInputs, p \in ResolverCursors }

InitResolver ==
    /\ \E o \in DrawOrders, c2 \in SecondCameras :
          cams = (1 :> [DefaultCamera EXCEPT !.viewport = LeftPart, !.order = o[1]])
                 @@ (2 :> [c2 EXCEPT !.order = o[2]])
    /\ HostQuiet

NextResolver ==
    \/ \E h \in ResolverFrames : HostFrame(h, MaxResolverFrames)
    \/ ActiveViewportData
    \/ ActiveViewportDataSkipped
    \/ PanOrbitCameraSystem
    \/ ExternalTakeOver

SpecResolver == InitResolver /\ [][NextResolver]_vars

\* ------------------------------------------------------------------------
\* Specification SpecSettle: one camera created with initialized = true and
\* targets away from its current values, left to animate under frames without
\* input; frames keep coming (weak fairness) until the bound
\* ------------------------------------------------------------------------

\* number of frames a behaviour of SpecSettle runs
MaxSettleFrames == 60

\* the position the camera is created at, and where it is asked to go
SettleTargets ==
    { [alpha |-> Some(0), beta |-> Some(0), radius |-> Some(5000), scale |-> Some(1000),
       target_alpha |-> 1000, target_beta |-> 500, target_radius |-> 6000,
       target_scale |-> 2000, target_focus |-> <<500, 0, -500>>],
      \* targets beyond the limits, and no scale given
      [alpha |-> Some(200), beta |-> Some(-300), radius |-> Some(1000), scale |-> None,
       target_alpha |-> -800, target_beta |-> 2000, target_radius |-> 20,
       target_scale |-> 20, target_focus |-> <<0, 300, 0>>] }

SettleSmoothnesses ==
    { [orbit_smoothness |-> s, pan_smoothness |-> s, zoom_smoothness |-> s] :
        s \in {0, 5, 8, 9} }

SettleCameras ==
    { With(With(With([DefaultCamera EXCEPT !.projection = proj, !.initialized = TRUE], t),
                sm), [enabled |-> en]) :
        proj \in {PerspectiveProjection, OrthographicProjection},
        t \in SettleTargets, sm \in SettleSmoothnesses, en \in BOOLEAN }

\* frames without input: nothing at all, or the pointer moving over the
\* camera's viewport with no button held, over the UI or not
SettleFrames ==
    { QuietFrame,
      [QuietFrame EXCEPT !.cursor = CursorInside, !.mouse_delta = <<50000, 20000>>],
      [QuietFrame EXCEPT !.cursor = CursorInside, !.mouse_delta = <<50000, 20000>>,
                         !.pointer_over_egui = TRUE] }

\* the record is the default (no active camera), or the application has
\* taken it over at startup and named the camera
InitSettle ==
    /\ cams \in [{1} -> SettleCameras]
    /\ HostIdle
    /\ active_cam \in { DefaultActiveCameraData,
                        [entity |-> Some(1), viewport_size |-> Some(WindowSize),
                         window_size |-> Some(WindowSize), manual |-> TRUE] }

NextSettle ==
    \/ \E h \in SettleFrames : HostFrame(h, MaxSettleFrames)
    \/ ActiveViewportData
    \/ ActiveViewportDataSkipped
    \/ PanOrbitCameraSystem

\* the Update schedule keeps running: the step that is due next in the frame
\* (input delivery, the resolver, the update engine) is eventually taken
FrameProgress ==
    \/ phase \in {"between", "external"} /\ frames < MaxSettleFrames /\ phase' = "resolve"
    \/ phase = "resolve" /\ phase' = "update"
    \/ phase = "update" /\ phase' = "between"

SpecSettle == InitSettle /\ [][NextSettle]_vars /\ WF_phase(FrameProgress)

\* ------------------------------------------------------------------------
\* Specification SpecDrag: one camera filling the window, dragged with the
\* orbit button up and down over several frames, released and pressed again,
\* at times with the pointer over the UI; upside-down orbiting allowed or not,
\* for beta limits inside and outside [-PI/2, PI/2]
\* ------------------------------------------------------------------------

\* number of frames a behaviour of SpecDrag runs
MaxDragFrames == 5

BetaLimits ==
    { [beta_lower_limit |-> None, beta_upper_limit |-> None],
      [beta_lower_limit |-> Some(-3000), beta_upper_limit |-> Some(3000)],
      [beta_lower_limit |-> Some(-500), beta_upper_limit |-> Some(500)] }

\* the camera starts level (beta 0); one that may not go upside down is also
\* given a beta beyond PI/2
DragCameras ==
    { With(With([DefaultCamera EXCEPT !.allow_upside_down = cfg[1]], lim),
           [alpha |-> Some(0), beta |-> Some(cfg[2]), radius |-> Some(5000)]) :
        cfg \in {<<TRUE, 0>>, <<FALSE, 0>>, <<FALSE, 2000>>}, lim \in BetaLimits }

\* the orbit button held while the pointer moves up by 172 pixels: 0.9 rad
DragUp ==
    [QuietFrame EXCEPT !.pressed = {"Left"}, !.cursor = CursorInside,
                       !.mouse_delta = <<30000, 172000>>]

DragFrames ==
    { [QuietFrame EXCEPT !.cursor = CursorInside],
      DragUp,
      [DragUp EXCEPT !.mouse_delta = <<0, -172000>>],
      [DragUp EXCEPT !.pointer_over_egui = TRUE] }

InitDrag ==
    /\ cams \in [{1} -> DragCameras]
    /\ HostQuiet

NextDrag ==
    \/ \E h \in DragFrames : HostFrame(h, MaxDragFrames)
    \/ ActiveViewportData
    \/ PanOrbitCameraSystem

SpecDrag == InitDrag /\ [][NextDrag]_vars

\* ------------------------------------------------------------------------
\* Specification SpecLimits: one camera filling the window, created with
\* limits of every kind and with presets inside and outside them, panned and
\* orbited by two viewport widths in one frame, zoomed, and with its targets
\* and a limit changed by external code between frames
\* ------------------------------------------------------------------------

\* number of frames a behaviour of SpecLimits runs
MaxLimitFrames == 2

AllLimits ==
    [alpha_lower_limit |-> Some(-1000), alpha_upper_limit |-> Some(1000),
     beta_lower_limit |-> Some(-500), beta_upper_limit |-> Some(1000),
     zoom_lower_limit |-> Some(2000), zoom_upper_limit |-> Some(8000),
     focus_x_lower_limit |-> Some(-500), focus_x_upper_limit |-> Some(500),
     focus_y_lower_limit |-> Some(-200), focus_y_upper_limit |-> Some(200),
     focus_z_lower_limit |-> Some(0), focus_z_upper_limit |-> Some(0)]

LimitConfigs ==
    { \* the defaults: no limits
      [initialized |-> FALSE],
      \* every limit set, nothing preset
      AllLimits,
      \* an upper zoom limit below the zoom floor
      [zoom_upper_limit |-> Some(20)],
      \* every limit set, and presets beyond them
      With(AllLimits @@ [alpha |-> None, beta |-> None, radius |-> None, scale |-> None,
                         focus |-> Vec3Zero],
           [alpha |-> Some(1500), beta |-> Some(2000), radius |-> Some(20),
            scale |-> Some(10), focus |-> <<900, 0, 300>>]),
      \* created at rest: initialized = true with every target on its value
      [initialized |-> TRUE, alpha |-> Some(0), beta |-> Some(0), radius |-> Some(5000),
       scale |-> Some(1000), target_radius |-> 5000,
       transform |-> [translation |-> <<0, 0, 5000>>, rotation |-> <<0, 0>>]] }

LimitCameras ==
    { With([DefaultCamera EXCEPT !.projection = proj], cfg) :
        proj \in {PerspectiveProjection, OrthographicProjection}, cfg \in LimitConfigs }

\* the pan button held while the pointer crosses two viewport widths
PanFar ==
    [QuietFrame EXCEPT !.pressed = {"Right"}, !.cursor = CursorInside,
                       !.mouse_delta = <<-1600000, 300000>>]

LimitFrames ==
    { QuietFrame,
      PanFar,
      [PanFar EXCEPT !.mouse_delta = <<1600000, -300000>>],
      [PanFar EXCEPT !.pressed = {"Left"}],
      [QuietFrame EXCEPT !.cursor = CursorInside, !.scroll = <<LineScroll(-4000)>>],
      [QuietFrame EXCEPT !.cursor = CursorInside, !.scroll = <<LineScroll(4000)>>] }

InitLimits ==
    /\ cams \in [{1} -> LimitCameras]
    /\ HostQuiet

NextLimits ==
    \/ \E h \in LimitFrames : HostFrame(h, MaxLimitFrames)
    \/ ActiveViewportData
    \/ PanOrbitCameraSystem
    \/ ExternalSetTarget
    \/ ExternalAimTarget
    \/ ExternalTightenLimit
    \/ ExternalForceUpdate

SpecLimits == InitLimits /\ [][NextLimits]_vars

\* ------------------------------------------------------------------------
\* Specification SpecZoom: one camera filling the window, of either
\* projection, zoomed by wheel events in lines, wheel events in pixels and
\* pinch gestures, alone and together
\* ------------------------------------------------------------------------

\* number of frames a behaviour of SpecZoom runs
MaxZoomFrames == 3

ZoomConfigs ==
    { [reversed_zoom |-> FALSE],
      [reversed_zoom |-> TRUE],
      [zoom_sensitivity |-> 500],
      [zoom_lower_limit |-> Some(800), zoom_upper_limit |-> Some(1200)],
      [zoom_smoothness |-> 0] }

ZoomCameras ==
    { With([DefaultCamera EXCEPT !.projection = proj], cfg) :
        proj \in {PerspectiveProjection, OrthographicProjection}, cfg \in ZoomConfigs }

\* a frame with one TouchpadMagnify event of the given amount
Pinch(amount) == [QuietFrame EXCEPT !.cursor = CursorInside, !.magnify = <<amount>>]

\* a frame with the given MouseWheel events
Wheel(evs) == [QuietFrame EXCEPT !.cursor = CursorInside, !.scroll = evs]

ZoomInputFrames ==
    { QuietFrame,
      Wheel(<<LineScroll(-1000)>>),
      Wheel(<<LineScroll(1000), LineScroll(2000)>>),
      Wheel(<<PixelScroll(0, 10000)>>),
      Pinch(10000),
      Pinch(-100),
      [Pinch(100) EXCEPT !.scroll = <<LineScroll(-1000)>>],
      \* a wheel line and a pinch that cancel at the default sensitivity
      [Pinch(-500) EXCEPT !.scroll = <<LineScroll(1000)>>],
      [Pinch(100) EXCEPT !.pointer_over_egui = TRUE] }

InitZoom ==
    /\ cams \in [{1} -> ZoomCameras]
    /\ HostQuiet

NextZoom ==
    \/ \E h \in ZoomInputFrames : HostFrame(h, MaxZoomFrames)
    \/ ActiveViewportData
    \/ PanOrbitCameraSystem

SpecZoom == InitZoom /\ [][NextZoom]_vars

\* ------------------------------------------------------------------------
\* Specification SpecSwitch: two cameras side by side in one window, the
\* pointer pressing, dragging and scrolling now on one, now on the other
\* ------------------------------------------------------------------------

\* number of frames a behaviour of SpecSwitch runs
MaxSwitchFrames == 3

CursorRight == Some(<<600, 300>>)

\* the cameras as created: not yet initialized, or at rest five units from
\* the focus
SwitchPresets ==
    { [initialized |-> FALSE],
      [initialized |-> TRUE, alpha |-> Some(0), beta |-> Some(0), radius |-> Some(5000),
       scale |-> Some(1000), target_radius |-> 5000] }

\* a drag of the given buttons with the cursor at the given position
Drag(buttons, at) ==
    [QuietFrame EXCEPT !.pressed = buttons, !.cursor = at,
                       !.mouse_delta = <<200000, 100000>>]

SwitchFrames ==
    { [QuietFrame EXCEPT !.cursor = CursorLeft],
      Drag({"Left"}, CursorLeft),
      Drag({"Left"}, CursorRight),
      Drag({"Right"}, CursorLeft),
      Drag({"Right"}, CursorRight),
      [QuietFrame EXCEPT !.cursor = CursorLeft, !.scroll = <<LineScroll(-1000)>>],
      [QuietFrame EXCEPT !.cursor = CursorRight, !.scroll = <<LineScroll(1000)>>],
      [Drag({"Left"}, CursorRight) EXCEPT !.pointer_over_egui = TRUE] }

InitSwitch ==
    /\ \E p \in SwitchPresets :
          cams = (1 :> With([DefaultCamera EXCEPT !.viewport = LeftHalf], p))
                 @@ (2 :> With([DefaultCamera EXCEPT !.viewport = RightHalf], p))
    /\ HostQuiet

NextSwitch ==
    \/ \E h \in SwitchFrames : HostFrame(h, MaxSwitchFrames)
    \/ ActiveViewportData
    \/ PanOrbitCameraSystem

SpecSwitch == InitSwitch /\ [][NextSwitch]_vars

\* ------------------------------------------------------------------------
\* Specification SpecSnap: one camera filling the window, with the smoothness
\* of one kind of motion, or of all, set to 0, orbited, panned and zoomed, and
\* with its targets moved far away by external code between frames
\* ------------------------------------------------------------------------

\* number of frames a behaviour of SpecSnap runs
MaxSnapFrames == 2

SnapSmoothnesses ==
    { [orbit_smoothness |-> 0, pan_smoothness |-> 6, zoom_smoothness |-> 8],
      [orbit_smoothness |-> 8, pan_smoothness |-> 0, zoom_smoothness |-> 8],
      [orbit_smoothness |-> 8, pan_smoothness |-> 6, zoom_smoothness |-> 0],
      [orbit_smoothness |-> 0, pan_smoothness |-> 0, zoom_smoothness |-> 0] }

SnapCameras ==
    { With([DefaultCamera EXCEPT !.projection = proj], sm) :
        proj \in {PerspectiveProjection, OrthographicProjection},
        sm \in SnapSmoothnesses }

SnapFrames ==
    { QuietFrame,
      Drag({"Left"}, CursorInside),
      Drag({"Right"}, CursorInside),
      Wheel(<<LineScroll(-1000)>>),
      [Pinch(100) EXCEPT !.scroll = <<LineScroll(2000)>>] }

InitSnap ==
    /\ cams \in [{1} -> SnapCameras]
    /\ HostQuiet

NextSnap ==
    \/ \E h \in SnapFrames : HostFrame(h, MaxSnapFrames)
    \/ ActiveViewportData
    \/ PanOrbitCameraSystem
    \/ ExternalSetTarget
    \/ ExternalAimTarget

SpecSnap == InitSnap /\ [][NextSnap]_vars

\* ------------------------------------------------------------------------
\* Specification SpecPlace: one camera filling the window, created without
\* presets at several positions around several focus points, with and without
\* zoom limits
\* ------------------------------------------------------------------------

\* number of frames a behaviour of SpecPlace runs
MaxPlaceFrames == 2

PlaceCameras ==
    { With([DefaultCamera EXCEPT !.projection = proj, !.transform.translation = pos,
                                 !.focus = f], lim) :
        proj \in {PerspectiveProjection, OrthographicProjection},
        \* Transform::translation of the camera as spawned
        pos \in { <<0, 1500, 5000>>, <<3000, 0, 4000>>, <<-2000, -1000, 2000>>,
                  <<1000, 0, 0>> },
        f \in { Vec3Zero, <<1000, 0, 0>> },
        lim \in { [zoom_lower_limit |-> None, zoom_upper_limit |-> None],
                  [zoom_lower_limit |-> Some(2000), zoom_upper_limit |-> Some(5100)] } }

PlaceFrames ==
    { QuietFrame,
      Wheel(<<LineScroll(-1000)>>),
      Drag({"Left"}, CursorInside),
      [Pinch(100) EXCEPT !.pointer_over_egui = TRUE] }

InitPlace ==
    /\ cams \in [{1} -> PlaceCameras]
    /\ HostQuiet

NextPlace ==
    \/ \E h \in PlaceFrames : HostFrame(h, MaxPlaceFrames)
    \/ ActiveViewportData
    \/ PanOrbitCameraSystem

SpecPlace == InitPlace /\ [][NextPlace]_vars

\* ------------------------------------------------------------------------
\* Specification SpecMove: one camera filling the window, with and without a
\* touchpad orbit modifier, under frames that carry rotation and pan input
\* together: button drags, wheel events in pixels and rotate gestures
\* ------------------------------------------------------------------------

\* number of frames a behaviour of SpecMove runs
MaxMoveFrames == 2

MoveCameras ==
    { With([DefaultCamera EXCEPT !.projection = proj],
           [modifier_orbit_touchpad |-> m, focus_x_upper_limit |-> lim]) :
        proj \in {PerspectiveProjection, OrthographicProjection},
        m \in {None, Some("ControlLeft")}, lim \in {None, Some(10)} }

MoveFrames ==
    { QuietFrame,
      \* a pan drag alone
      Drag({"Right"}, CursorInside),
      \* an orbit drag together with a touchpad scroll, in pixels
      [Drag({"Left"}, CursorInside) EXCEPT !.scroll = <<PixelScroll(30000, 20000)>>],
      \* both buttons held
      Drag({"Left", "Right"}, CursorInside),
      \* a pan drag together with a rotate gesture
      [Drag({"Right"}, CursorInside) EXCEPT !.rotate = <<300>>],
      \* a touchpad scroll alone, with and without the modifier key held
      Wheel(<<PixelScroll(30000, 20000)>>),
      [Wheel(<<PixelScroll(30000, 20000)>>) EXCEPT !.keys = {"ControlLeft"}],
      \* a pan drag while a touchpad scroll with the modifier key orbits
      [Drag({"Right"}, CursorInside) EXCEPT !.scroll = <<PixelScroll(30000, 20000)>>,
                                            !.keys = {"ControlLeft"}] }

InitMove ==
    /\ cams \in [{1} -> MoveCameras]
    /\ HostQuiet

NextMove ==
    \/ \E h \in MoveFrames : HostFrame(h, MaxMoveFrames)
    \/ ActiveViewportData
    \/ PanOrbitCameraSystem

SpecMove == InitMove /\ [][NextMove]_vars

\* ------------------------------------------------------------------------
\* Specification SpecPair: camera 1 fills the window, camera 2 is drawn over
\* its right half; each is enabled or not; the pointer presses, drags and
\* scrolls on the left and on the right, and external code takes the record
\* over between frames
\* ------------------------------------------------------------------------

\* number of frames a behaviour of SpecPair runs
MaxPairFrames == 2

PairCameras ==
    { (1 :> With(DefaultCamera, p @@ [enabled |-> en[1]]))
      @@ (2 :> With([DefaultCamera EXCEPT !.viewport = RightHalf, !.order = 1],
                    p @@ [enabled |-> en[2]])) :
        p \in SwitchPresets, en \in BOOLEAN \X BOOLEAN }

InitPair ==
    /\ cams \in PairCameras
    /\ HostQuiet

NextPair ==
    \/ \E h \in SwitchFrames : HostFrame(h, MaxPairFrames)
    \/ ActiveViewportData
    \/ ActiveViewportDataSkipped
    \/ PanOrbitCameraSystem
    \/ ExternalTakeOver

SpecPair == InitPair /\ [][NextPair]_vars

\* ------------------------------------------------------------------------
\* Properties
\* ------------------------------------------------------------------------

\* a step of pan_orbit_camera: one update tick of every camera
Tick == phase = "update" /\ phase' = "between"

\* a state right after an update tick
AfterTick == phase = "between" /\ frames >= 1

PositionSet(c) == IsSome(c.alpha) /\ IsSome(c.beta) /\ IsSome(c.radius)

AllSome(c) == PositionSet(c) /\ IsSome(c.scale)

AllNone(c) == c.alpha = None /\ c.beta = None /\ c.radius = None /\ c.scale = None

C2_ZoomFloor ==
    AfterTick =>
        \A e \in DOMAIN cams :
            LET c == cams[e]
            IN /\ IsSome(c.radius) => Unwrap(c.radius) >= ZoomFloor
               /\ c.target_radius >= ZoomFloor
               /\ c.target_scale >= ZoomFloor
               /\ IsOrthographic(c) =>
                      /\ IsSome(c.scale) => Unwrap(c.scale) >= ZoomFloor
                      /\ c.projection.scale >= ZoomFloor

\* C9 as stated: the value a tick writes depends on the frame time; in a
\* frame longer than the usual one a radius still on its way moves further
\* toward its target than the per-call fraction 1 - zoom_smoothness takes it.
C9_FrameRateAware ==
    [][\A e \in DOMAIN cams :
          LET c == cams[e]
              d == cams'[e]
              fixed == lerp_and_snap_f32(Unwrap(c.radius), d.target_radius, c.zoom_smoothness)
          IN (/\ Tick /\ c.initialized /\ IsSome(c.radius)
              /\ frame.delta_seconds > 16
              /\ Unread(events.magnify_old, events.magnify_new) = <<>>
              /\ c.zoom_smoothness \in 1..9
              /\ fixed # d.target_radius)
             => Abs(d.target_radius - Unwrap(d.radius)) < Abs(d.target_radius - fixed)]_vars

\* C9 amended: the smoothing of a tick is a fixed per-call fraction; for the
\* same current value, target and smoothness the value written is the same
\* whatever the frame time: a tick without pixel zoom leaves radius either
\* untouched or at lerp_and_snap(radius, target_radius, zoom_smoothness).
C9_FixedFractionPerTick ==
    [][\A e \in DOMAIN cams :
          LET c == cams[e]
              d == cams'[e]
          IN (/\ Tick /\ c.initialized /\ IsSome(c.radius)
              /\ Unread(events.magnify_old, events.magnify_new) = <<>>)
             => \/ d.radius = c.radius
                \/ d.radius = Some(lerp_and_snap_f32(Unwrap(c.radius), d.target_radius,
                                                     c.zoom_smoothness))]_vars

\* a long frame has just moved a smoothed radius part of the way to its target
C9_Witness ==
    /\ AfterTick
    /\ frame.delta_seconds > 16
    /\ events.magnify_new = <<>> /\ events.magnify_old = <<>>
    /\ \E e \in DOMAIN cams :
          /\ cams[e].initialized /\ IsSome(cams[e].radius)
          /\ cams[e].zoom_smoothness \in 1..9
          /\ cams[e].transform_changed
          /\ Unwrap(cams[e].radius) # cams[e].target_radius

Gated(c, entity) ==
    frame.pointer_over_egui \/ ~c.enabled \/ active_cam.entity # Some(entity)

Targets(c) ==
    <<c.target_alpha, c.target_beta, c.target_radius, c.target_scale, c.target_focus>>

\* C7 as stated: in a tick where the UI claims the pointer, the camera is
\* disabled or the record names another entity, the targets change at most
\* by the limit clamping of their pre-tick values.
C7_GatedTargetsOnlyClamped ==
    [][\A e \in DOMAIN cams :
          (Tick /\ Gated(cams[e], e))
              => Targets(cams'[e]) = Targets(ApplyConstraints(cams[e]))]_vars

\* C7 amended: in such a tick no input is translated into motion; the
\* targets end the tick at the limit clamping of their pre-tick values, or,
\* in the camera's first tick, of the values initialization seeds them with.
C7_GatedTargetsSeededAndClamped ==
    [][\A e \in DOMAIN cams :
          (Tick /\ Gated(cams[e], e))
              => Targets(cams'[e]) = Targets(ApplyConstraints(Initialize(cams[e])))]_vars

\* a tick has just run with a drag, a wheel click, a pinch and a rotate
\* gesture in the frame while the camera under the pointer was gated off:
\* disabled, or the pointer over the UI
C7_Witness ==
    /\ AfterTick /\ frames >= 2
    /\ frame.mouse_delta # Vec2Zero
    /\ events.scroll_new # <<>> /\ events.magnify_new # <<>> /\ events.rotate_new # <<>>
    /\ \E e \in DOMAIN cams :
          /\ active_cam.entity = Some(e)
          /\ orbit_pressed(cams[e])
          /\ ~cams[e].enabled \/ frame.pointer_over_egui

\* ------------------------------------------------------------------------
\* The resolver (SpecResolver)
\* ------------------------------------------------------------------------

\* the frame's relevant input: the orbit or the pan combination of some camera
\* was just pressed, or a scroll event is present
RelevantInput ==
    \/ \E e \in DOMAIN cams : orbit_just_pressed(cams[e]) \/ pan_just_pressed(cams[e])
    \/ ~ScrollEventsEmpty

\* the window-backed cameras whose logical viewport strictly contains the pointer
PointerCameras ==
    { e \in DOMAIN cams :
        /\ cams[e].target = "Window"
        /\ cursor # None
        /\ Unwrap(cursor)[1] > cams[e].viewport.min[1]
        /\ Unwrap(cursor)[1] < cams[e].viewport.max[1]
        /\ Unwrap(cursor)[2] > cams[e].viewport.min[2]
        /\ Unwrap(cursor)[2] < cams[e].viewport.max[2] }

\* a state right after the resolver's step of the frame (its inputs still in place)
AfterResolver == phase = "update"

\* C3: in a frame with relevant input and manual = false, when the pointer is
\* strictly inside the viewport of some window-backed cameras, the record names
\* one of them whose draw order is the maximum among them, with the viewport
\* size of that camera and the size of its window
C3_SelectsTopCameraUnderPointer ==
    (AfterResolver /\ ~active_cam.manual /\ RelevantInput /\ PointerCameras # {}) =>
        \E e \in PointerCameras :
            /\ \A o \in PointerCameras : cams[o].order <= cams[e].order
            /\ active_cam = [entity |-> Some(e),
                             viewport_size |->
                                 Some(VSub(cams[e].viewport.max, cams[e].viewport.min)),
                             window_size |-> Some(WindowSize),
                             manual |-> FALSE]

\* C4: while the record has manual = true, no step of a frame (the host's
\* input delivery, the resolver, the update engine) changes the record
C4_ManualRecordUntouched ==
    [][(active_cam.manual /\ phase' # "external") => active_cam' = active_cam]_vars

\* a frame has run under a manual record naming camera 1 although a camera's
\* binding was pressed with the pointer inside camera 2 only
C4_Witness ==
    /\ AfterTick
    /\ active_cam.manual
    /\ active_cam.entity = Some(1)
    /\ RelevantInput
    /\ PointerCameras = {2}

\* C5: in a frame with no relevant input the resolver leaves the record as it is
C5_NoInputKeepsRecord ==
    [][(phase = "resolve" /\ ~RelevantInput) => active_cam' = active_cam]_vars

\* the resolver has run without relevant input and camera 1, selected by an
\* earlier frame, is still the active one although the pointer has left it
C5_Witness ==
    /\ AfterResolver
    /\ frames >= 2
    /\ ~RelevantInput
    /\ active_cam.entity = Some(1)
    /\ ~active_cam.manual
    /\ cursor # None
    /\ 1 \notin PointerCameras

\* C6: in a frame with relevant input and manual = false in which no
\* window-backed camera's viewport strictly contains the pointer, the record is
\* the empty default after the resolver's step
C6_NoCameraUnderPointerClears ==
    (AfterResolver /\ ~active_cam.manual /\ RelevantInput /\ PointerCameras = {}) =>
        active_cam = DefaultActiveCameraData

\* the record is the empty default after a press with the pointer
\* exactly on the edge of the only window-backed viewport near it
C6_Witness ==
    /\ AfterResolver
    /\ frames >= 2
    /\ RelevantInput
    /\ PointerCameras = {}
    /\ cursor = Some(<<500, 300>>)
    /\ cams[2].target = "Image"
    /\ mouse_input.just_pressed # {}
    /\ active_cam = DefaultActiveCameraData

\* ------------------------------------------------------------------------
\* Smoothing towards the targets (SpecSettle)
\* ------------------------------------------------------------------------

\* the current values are exactly the targets
Settled(c) ==
    /\ c.alpha = Some(c.target_alpha)
    /\ c.beta = Some(c.target_beta)
    /\ c.radius = Some(c.target_radius)
    /\ c.scale = Some(c.target_scale)
    /\ c.focus = c.target_focus

AllSettled == \A e \in DOMAIN cams : Settled(cams[e])

\* C8: an initialized camera whose targets differ from its current values,
\* ticked without input and without external mutation, reaches within the
\* frames of the run a state where alpha, beta, radius, scale and focus are
\* exactly their targets and stays there, and a tick of a settled camera
\* changes none of its fields and does not write its transform; enabled or
\* not, active or not, pointer over the UI or not
C8_SettlesOnTargets ==
    /\ <>[]AllSettled
    /\ [][(Tick /\ AllSettled) =>
            cams' = [e \in DOMAIN cams |-> [cams[e] EXCEPT !.transform_changed = FALSE]]]_vars

\* a disabled camera with the strongest smoothing has settled with the
\* pointer over the UI, and its last tick wrote nothing
C8_Witness ==
    /\ AfterTick
    /\ AllSettled
    /\ ~cams[1].enabled
    /\ cams[1].orbit_smoothness = 9
    /\ frame.pointer_over_egui
    /\ ~cams[1].transform_changed
    /\ cams[1].alpha # Some(0)

\* ------------------------------------------------------------------------
\* The upside-down flag and the beta clamp (SpecDrag)
\* ------------------------------------------------------------------------

\* the orbit combination of the camera was just pressed or just released
OrbitChanged(c) == orbit_just_pressed(c) \/ orbit_just_released(c)

\* beta wrapped into one turn lies strictly between a quarter and three
\* quarters of a turn
BetaUpsideDown(beta) ==
    Abs(FRem(beta, TAU)) > TAU \div 4 /\ Abs(FRem(beta, TAU)) < (3 * TAU) \div 4

\* C11: a tick in which the camera does not accept input, or in which its
\* orbit combination was neither just pressed nor just released, leaves
\* is_upside_down as it was, whatever target_beta becomes
C11_UpsideDownOnlyOnOrbitChange ==
    [][Tick =>
        \A e \in DOMAIN cams :
            (Gated(cams[e], e) \/ ~OrbitChanged(cams[e])) =>
                cams'[e].is_upside_down = cams[e].is_upside_down]_vars

\* in the middle of a drag the target has passed a quarter turn and the flag
\* is still false
C11_Witness ==
    /\ AfterTick
    /\ mouse_input.pressed = {"Left"}
    /\ mouse_input.just_pressed = {}
    /\ ~frame.pointer_over_egui
    /\ active_cam.entity = Some(1)
    /\ cams[1].allow_upside_down
    /\ BetaUpsideDown(cams[1].target_beta)
    /\ ~cams[1].is_upside_down

\* C12 as stated: with allow_upside_down the flag turns true only in a tick
\* in which the orbit button was pressed (again)
C12_FlipsOnlyOnRepress ==
    [][Tick =>
        \A e \in DOMAIN cams :
            (cams[e].allow_upside_down /\ ~cams[e].is_upside_down
                /\ cams'[e].is_upside_down) => orbit_just_pressed(cams[e])]_vars

\* C12: with allow_upside_down, the flag keeps its value in every tick of a
\* drag after the one of the press, turns true only in a tick in which the
\* orbit button was just pressed or just released, and the tick of the release
\* (input accepted) sets it from the target_beta the drag has reached
C12_FlipsOnReleaseNotMidDrag ==
    [][Tick =>
        \A e \in DOMAIN cams :
            cams[e].allow_upside_down =>
                /\ (orbit_pressed(cams[e]) /\ ~orbit_just_pressed(cams[e])) =>
                       cams'[e].is_upside_down = cams[e].is_upside_down
                /\ (~cams[e].is_upside_down /\ cams'[e].is_upside_down) =>
                       OrbitChanged(cams[e])
                /\ (~Gated(cams[e], e) /\ orbit_just_released(cams[e])) =>
                       cams'[e].is_upside_down = BetaUpsideDown(cams[e].target_beta)]_vars

\* a drag from beta 0 beyond three eighths of a turn was released, and the
\* tick of the release has set the flag
C12_Witness ==
    /\ AfterTick
    /\ mouse_input.pressed = {}
    /\ mouse_input.just_released = {"Left"}
    /\ ~frame.pointer_over_egui
    /\ active_cam.entity = Some(1)
    /\ cams[1].allow_upside_down
    /\ cams[1].target_beta > (3 * PI) \div 4
    /\ cams[1].target_beta < PI
    /\ cams[1].is_upside_down

\* C14: with allow_upside_down = false, target_beta lies in [-PI/2, PI/2] at
\* the end of every update tick
C14_BetaHardClamp ==
    AfterTick =>
        \A e \in DOMAIN cams :
            ~cams[e].allow_upside_down =>
                cams[e].target_beta >= -HalfPi /\ cams[e].target_beta <= HalfPi

\* a drag upwards under beta limits wider than the half turn has been stopped
\* at PI/2
C14_Witness ==
    /\ AfterTick
    /\ ~cams[1].allow_upside_down
    /\ cams[1].beta_upper_limit = Some(3000)
    /\ mouse_input.pressed = {"Left"}
    /\ active_cam.entity = Some(1)
    /\ cams[1].target_beta = HalfPi

\* ------------------------------------------------------------------------
\* Limits, seeding and the commit condition (SpecLimits)
\* ------------------------------------------------------------------------

\* v lies within the pair of optional limits; a pair with lower > upper
\* constrains nothing here
InPair(v, lower, upper) ==
    (IsSome(lower) /\ IsSome(upper) /\ Unwrap(lower) > Unwrap(upper))
    \/ ((IsSome(lower) => v >= Unwrap(lower)) /\ (IsSome(upper) => v <= Unwrap(upper)))

\* v lies within the zoom limits, each raised to the zoom floor
InZoomPair(c, v) ==
    /\ v >= ZoomFloor
    /\ InPair(v, c.zoom_lower_limit,
              IF IsSome(c.zoom_upper_limit)
              THEN Some(Max(Unwrap(c.zoom_upper_limit), ZoomFloor)) ELSE None)

AngleAndFocusTargetsInLimits(c) ==
    /\ InPair(c.target_alpha, c.alpha_lower_limit, c.alpha_upper_limit)
    /\ InPair(c.target_focus[1], c.focus_x_lower_limit, c.focus_x_upper_limit)
    /\ InPair(c.target_focus[2], c.focus_y_lower_limit, c.focus_y_upper_limit)
    /\ InPair(c.target_focus[3], c.focus_z_lower_limit, c.focus_z_upper_limit)

FrameCarriesNoInput ==
    /\ mouse_input.pressed = {} \/ frame.mouse_delta = Vec2Zero
    /\ Unread(events.scroll_old, events.scroll_new) = <<>>
    /\ Unread(events.magnify_old, events.magnify_new) = <<>>
    /\ Unread(events.rotate_old, events.rotate_new) = <<>>

NoAcceptedInput(c, entity) == Gated(c, entity) \/ FrameCarriesNoInput

\* every target equals its current counterpart; scale only where the
\* projection is orthographic
TargetsEqualCurrent(c) ==
    /\ c.alpha = Some(c.target_alpha)
    /\ c.beta = Some(c.target_beta)
    /\ c.radius = Some(c.target_radius)
    /\ c.focus = c.target_focus
    /\ IsOrthographic(c) =>
           c.scale = Some(c.target_scale) /\ c.projection.scale = c.target_scale

\* C15 as stated: at the end of a camera's first update tick in which it
\* accepts no input, for any initial configuration, target_alpha = alpha,
\* target_beta = beta, target_radius = radius, target_focus = focus and, for an
\* orthographic camera, target_scale = scale = projection scale
C15_FirstTickTargetsEqualCurrent ==
    [][\A e \in DOMAIN cams :
          (Tick /\ ~cams[e].initialized /\ NoAcceptedInput(cams[e], e))
              => TargetsEqualCurrent(cams'[e])]_vars

\* the targets are unchanged by the constraints of a tick
TargetsWithinConstraints(c) == Targets(ApplyConstraints(c)) = Targets(c)

\* C19 as stated: a tick of an initialized camera with no accepted input,
\* every target equal to its current counterpart and force_update false
\* leaves the transform, the projection scale, alpha, beta, radius, scale and
\* focus unchanged
C19_NoTriggerNoChange ==
    [][\A e \in DOMAIN cams :
          (Tick /\ cams[e].initialized /\ NoAcceptedInput(cams[e], e)
                /\ Settled(cams[e]) /\ ~cams[e].force_update)
              => /\ cams'[e].transform = cams[e].transform
                 /\ cams'[e].projection.scale = cams[e].projection.scale
                 /\ cams'[e].alpha = cams[e].alpha
                 /\ cams'[e].beta = cams[e].beta
                 /\ cams'[e].radius = cams[e].radius
                 /\ cams'[e].scale = cams[e].scale
                 /\ cams'[e].focus = cams[e].focus]_vars

\* C19: a tick of an initialized camera with no accepted input, every target
\* equal to its current counterpart and within its limits (the constraints of
\* the tick leave the targets as they are) and force_update false does not
\* write the transform and leaves the transform, the projection scale, alpha,
\* beta, radius, scale and focus unchanged
C19_NoTriggerNoChangeWithinLimits ==
    [][\A e \in DOMAIN cams :
          (Tick /\ cams[e].initialized /\ NoAcceptedInput(cams[e], e)
                /\ Settled(cams[e]) /\ TargetsWithinConstraints(cams[e])
                /\ ~cams[e].force_update)
              => /\ ~cams'[e].transform_changed
                 /\ cams'[e].transform = cams[e].transform
                 /\ cams'[e].projection.scale = cams[e].projection.scale
                 /\ cams'[e].alpha = cams[e].alpha
                 /\ cams'[e].beta = cams[e].beta
                 /\ cams'[e].radius = cams[e].radius
                 /\ cams'[e].scale = cams[e].scale
                 /\ cams'[e].focus = cams[e].focus]_vars

\* a camera at rest after a tick of a frame without input that did not write
\* its transform
C19_Witness ==
    /\ AfterTick
    /\ frames = 2
    /\ FrameCarriesNoInput
    /\ \E e \in DOMAIN cams :
          /\ cams[e].initialized /\ Settled(cams[e]) /\ TargetsWithinConstraints(cams[e])
          /\ ~cams[e].force_update
          /\ ~cams[e].transform_changed

\* ------------------------------------------------------------------------
\* Zoom (SpecZoom)
\* ------------------------------------------------------------------------

ZoomTarget(c) == IF IsOrthographic(c) THEN c.target_scale ELSE c.target_radius

ZoomValue(c) == IF IsOrthographic(c) THEN c.scale ELSE c.radius

\* the sum of the line-unit wheel events after the reversed_zoom sign and the
\* zoom sensitivity
RECURSIVE LineSum(_, _)
LineSum(c, evs) ==
    IF evs = <<>> THEN 0
    ELSE (IF Head(evs).unit = "Line"
          THEN FMul(Head(evs).y * (IF c.reversed_zoom THEN -1 ELSE 1), c.zoom_sensitivity)
          ELSE 0) + LineSum(c, Tail(evs))

LineScrollSum(c) == LineSum(c, Unread(events.scroll_old, events.scroll_new))

\* the sum of the amounts of the pinch gestures
MagnifySum == SumSeq(Unread(events.magnify_old, events.magnify_new))

\* the pixel accumulator of the pinch gestures: amount * zoom_sensitivity * 2
MagnifyAccumulated(c) == FMul(MagnifySum, c.zoom_sensitivity) * 2

\* -x * old * 0.2
ZoomShare(x, old) == TruncDiv(FMul(-x, old) * 2, 10)

\* C16 as stated, m being the sum of the magnify gestures: in a tick where the
\* active camera accepts line-scroll events summing to s and magnify gestures
\* summing to m, the zoom target becomes clamp(old - (s + m) * old * 0.2)
C16_ZoomMultiplicative ==
    [][\A e \in DOMAIN cams :
          (Tick /\ cams[e].initialized /\ ~Gated(cams[e], e))
              => LET old == ZoomTarget(cams[e])
                 IN ZoomTarget(cams'[e]) =
                        apply_zoom_limits(cams[e], old + ZoomShare(LineScrollSum(cams[e]), old)
                                                       + ZoomShare(MagnifySum, old))]_vars

\* C16: in a tick where the active, initialized camera accepts line-scroll
\* events summing to s (after the reversed_zoom sign and zoom_sensitivity) and
\* magnify gestures accumulating to m = sum of amount * zoom_sensitivity * 2,
\* the zoom target (target_radius for perspective, target_scale for
\* orthographic) becomes clamp(old - s * old * 0.2 - m * old * 0.2)
C16_ZoomMultiplicativeAccumulated ==
    [][\A e \in DOMAIN cams :
          (Tick /\ cams[e].initialized /\ ~Gated(cams[e], e))
              => LET old == ZoomTarget(cams[e])
                 IN ZoomTarget(cams'[e]) =
                        apply_zoom_limits(cams[e], old + ZoomShare(LineScrollSum(cams[e]), old)
                                                       + ZoomShare(MagnifyAccumulated(cams[e]), old))]_vars

\* one wheel line y = -1 at the default sensitivity has raised the
\* target_radius 5.22 of the default perspective camera by a fifth
C16_Witness ==
    /\ AfterTick
    /\ frames = 2
    /\ events.scroll_new = <<LineScroll(-1000)>>
    /\ events.scroll_old = <<>>
    /\ events.magnify_new = <<>> /\ events.magnify_old = <<>>
    /\ ~IsOrthographic(cams[1])
    /\ cams[1].zoom_sensitivity = 1000 /\ ~cams[1].reversed_zoom
    /\ cams[1].zoom_upper_limit = None
    /\ active_cam.entity = Some(1)
    /\ cams[1].target_radius = 6264

FrameEnds == phase # "between" /\ phase' = "between"

\* the input of the frame selects camera e: it is input the resolver counts,
\* and e is the one camera under the pointer
Selects(e) == RelevantInput /\ PointerCameras = {e} /\ ~active_cam.manual

\* the input of the frame carries motion for camera c
CarriesMotion(c) ==
    \/ (orbit_pressed(c) \/ pan_pressed(c)) /\ frame.mouse_delta # Vec2Zero
    \/ LineScrollSum(c) # 0

\* C18: the resolver runs before the engine in every frame: when the input of
\* a frame both selects a camera (a press or wheel event with the pointer on
\* its viewport) and carries motion, and the camera is enabled and the pointer
\* not over the UI, the systems of that frame move the targets of the camera
\* selected in that frame and leave the targets of every other camera alone,
\* whichever camera the record named before
C18_InputGoesToNewlySelected ==
    [][\A e \in DOMAIN cams :
          (FrameEnds /\ Selects(e) /\ CarriesMotion(cams[e])
                     /\ cams[e].enabled /\ ~frame.pointer_over_egui
                     /\ \A o \in DOMAIN cams : cams[o].initialized)
              => /\ active_cam'.entity = Some(e)
                 /\ Targets(cams'[e]) # Targets(cams[e])
                 /\ \A o \in DOMAIN cams \ {e} : Targets(cams'[o]) = Targets(cams[o])]_vars

\* camera 1 was orbited in the first frame; a press of the pan button on
\* camera 2 in the second frame has panned camera 2 and not camera 1
C18_Witness ==
    /\ AfterTick
    /\ frames = 2
    /\ mouse_input.just_pressed = {"Right"}
    /\ cursor = CursorRight
    /\ active_cam.entity = Some(2)
    /\ cams[1].target_alpha # 0
    /\ cams[1].target_focus = Vec3Zero
    /\ cams[2].target_focus # Vec3Zero
    /\ cams[2].target_alpha = 0

\* ------------------------------------------------------------------------
\* Smoothness 0 (SpecSnap)
\* ------------------------------------------------------------------------

\* C20: after every tick that wrote the transform, a camera with
\* orbit_smoothness = 0 has alpha = target_alpha and beta = target_beta, one
\* with pan_smoothness = 0 has focus = target_focus, and one with
\* zoom_smoothness = 0 has radius = target_radius and scale = target_scale,
\* however far the targets were from the current values
C20_ZeroSmoothnessSnaps ==
    AfterTick =>
        \A e \in DOMAIN cams :
            cams[e].transform_changed =>
                /\ cams[e].orbit_smoothness = 0 =>
                       /\ cams[e].alpha = Some(cams[e].target_alpha)
                       /\ cams[e].beta = Some(cams[e].target_beta)
                /\ cams[e].pan_smoothness = 0 => cams[e].focus = cams[e].target_focus
                /\ cams[e].zoom_smoothness = 0 =>
                       /\ cams[e].radius = Some(cams[e].target_radius)
                       /\ cams[e].scale = Some(cams[e].target_scale)

\* external code has turned target_alpha by 2.5 rad; with orbit_smoothness 0
\* the next tick has put alpha on it, while the radius, smoothed, is still on
\* its way to its target
C20_Witness ==
    /\ AfterTick
    /\ frames = 2
    /\ cams[1].transform_changed
    /\ cams[1].orbit_smoothness = 0
    /\ cams[1].target_alpha = 2500
    /\ cams[1].alpha = Some(2500)
    /\ cams[1].radius # Some(cams[1].target_radius)

\* ------------------------------------------------------------------------
\* The radius found by initialization (SpecPlace)
\* ------------------------------------------------------------------------

\* r is the Euclidean distance of p and q, rounded down to the thousandth
IsDistance(r, p, q) ==
    LET d2 == (p[1] - q[1]) * (p[1] - q[1]) + (p[2] - q[2]) * (p[2] - q[2])
              + (p[3] - q[3]) * (p[3] - q[3])
    IN r >= 0 /\ r * r <= d2 /\ (r + 1) * (r + 1) > d2

\* the first tick of a camera created with radius unset, without accepted input
FirstTickNoRadius(e) ==
    Tick /\ ~cams[e].initialized /\ cams[e].radius = None /\ NoAcceptedInput(cams[e], e)

\* C21 as stated: initialization sets an unset radius to the distance of the
\* position and the focus, clamped, and for a fresh default camera at
\* (0, 1.5, 5) with the focus at the origin that radius is 5.15 to within 0.05
C21_RadiusIsDistanceAbout515 ==
    [][\A e \in DOMAIN cams :
          FirstTickNoRadius(e)
              => LET c == cams[e]
                     r == Length3(VSub(c.transform.translation, c.focus))
                 IN /\ IsDistance(r, c.transform.translation, c.focus)
                    /\ cams'[e].radius = Some(apply_zoom_limits(c, r))
                    /\ (c.transform.translation = <<0, 1500, 5000>> /\ c.focus = Vec3Zero
                        /\ c.zoom_lower_limit = None /\ c.zoom_upper_limit = None)
                           => Abs(Unwrap(cams'[e].radius) - 5150) <= 50]_vars

\* C21: in the first tick of a camera created with radius unset and accepting
\* no input, radius becomes the Euclidean distance between the camera's
\* position and its focus, clamped to the zoom limits and the zoom floor; for
\* a fresh default camera at (0, 1.5, 5) with the focus at the origin that is
\* 5.22
C21_RadiusIsDistance ==
    [][\A e \in DOMAIN cams :
          FirstTickNoRadius(e)
              => LET c == cams[e]
                     r == Length3(VSub(c.transform.translation, c.focus))
                 IN /\ IsDistance(r, c.transform.translation, c.focus)
                    /\ cams'[e].radius = Some(apply_zoom_limits(c, r))
                    /\ (c.transform.translation = <<0, 1500, 5000>> /\ c.focus = Vec3Zero
                        /\ c.zoom_lower_limit = None /\ c.zoom_upper_limit = None)
                           => cams'[e].radius = Some(5220)]_vars

\* the camera spawned at (3, 0, 4) around the focus (1, 0, 0) has the radius
\* 4.472 after its first tick
C21_Witness ==
    /\ AfterTick
    /\ frames = 1
    /\ FrameCarriesNoInput
    /\ cams[1].focus = <<1000, 0, 0>>
    /\ cams[1].zoom_lower_limit = None
    /\ cams[1].radius = Some(4472)
    /\ cams[1].target_radius = 4472

\* ------------------------------------------------------------------------
\* Rotation, pan and the touchpad (SpecMove)
\* ------------------------------------------------------------------------

\* the sum of the wheel events in pixels among evs
RECURSIVE PixelSum(_)
PixelSum(evs) ==
    IF evs = <<>> THEN Vec2Zero
    ELSE VAdd(IF Head(evs).unit = "Pixel" THEN <<Head(evs).x, Head(evs).y>> ELSE Vec2Zero,
              PixelSum(Tail(evs)))

\* the sum of the unread wheel events in pixels
PixelScrollSum == PixelSum(Unread(events.scroll_old, events.scroll_new))

TouchpadOrbits(c) ==
    IsSome(c.modifier_orbit_touchpad) /\ Unwrap(c.modifier_orbit_touchpad) \in key_input

\* the rotation delta the tick accumulates for camera c: the pointer motion
\* under the orbit combination, the touchpad scroll under its modifier, and
\* the rotate gestures
RotationAccumulated(c) ==
    VAdd(VAdd(IF orbit_pressed(c) THEN VMul(frame.mouse_delta, c.orbit_sensitivity)
              ELSE Vec2Zero,
              IF TouchpadOrbits(c) THEN VMul(PixelScrollSum, c.orbit_sensitivity)
              ELSE Vec2Zero),
         <<FMul(SumSeq(Unread(events.rotate_old, events.rotate_new)),
                c.orbit_sensitivity) * 3, 0>>)

\* the pan delta the tick accumulates for camera c
PanAccumulated(c) ==
    VAdd(IF ~orbit_pressed(c) /\ pan_pressed(c)
         THEN VMul(frame.mouse_delta, c.pan_sensitivity) ELSE Vec2Zero,
         IF ~TouchpadOrbits(c) THEN VMul(PixelScrollSum, c.pan_sensitivity) ELSE Vec2Zero)

OnlyPixelScroll(e) ==
    /\ Tick /\ ~Gated(cams[e], e)
    /\ mouse_input.pressed = {}
    /\ Unread(events.magnify_old, events.magnify_new) = <<>>
    /\ Unread(events.rotate_old, events.rotate_new) = <<>>
    /\ LineScrollSum(cams[e]) = 0
    /\ \A i \in DOMAIN Unread(events.scroll_old, events.scroll_new) :
           Unread(events.scroll_old, events.scroll_new)[i].unit = "Pixel"
    /\ PixelScrollSum # Vec2Zero

Angles(c) == <<c.target_alpha, c.target_beta>>

ZoomTargets(c) == <<c.target_radius, c.target_scale>>

\* the zoom targets of c clamped
ZoomTargetsClamped(c) ==
    <<apply_zoom_limits(c, c.target_radius), apply_zoom_limits(c, c.target_scale)>>

\* an initialized camera: the touchpad scroll turns it while its touchpad
\* modifier is configured and held, and pans it otherwise
PixelScrollRouted(e) ==
    IF TouchpadOrbits(cams[e])
    THEN /\ cams'[e].target_focus = apply_focus_limits(cams[e], cams[e].target_focus)
         /\ Angles(cams'[e]) # Angles(cams[e])
    ELSE /\ Angles(cams'[e]) = Angles(cams[e])
         /\ cams'[e].target_focus # cams[e].target_focus

MovedFrom(seed(_)) ==
    { e \in DOMAIN cams : Targets(cams'[e]) # Targets(ApplyConstraints(seed(cams[e]))) }

AsBefore(c) == c

\* every camera in moved is the record's entity, enabled, with the pointer
\* off the UI, and there is at most one
OnlyTheActive(moved) ==
    /\ Cardinality(moved) <= 1
    /\ \A e \in moved : ~Gated(cams[e], e)

\* C24 as stated: in every tick at most one camera, the record's entity if
\* enabled and the pointer is not over the UI, has a target changed by input;
\* the targets of every other camera change at most by limit clamping
C24_OneCameraTakesInput ==
    [][Tick => OnlyTheActive(MovedFrom(AsBefore))]_vars

\* C24: in every tick at most one camera, the record's entity if enabled and
\* the pointer is not over the UI, has a target changed by input; the targets
\* of every other camera end the tick at the limit clamping of their values
\* before the tick or, in that camera's first tick, of the values
\* initialization seeds them with
C24_OneCameraTakesInputAfterSeeding ==
    [][Tick => OnlyTheActive(MovedFrom(Initialize))]_vars

\* both cameras enabled and under the pointer: the drag has turned camera 2,
\* drawn on top, and not camera 1
C24_Witness ==
    /\ AfterTick
    /\ cursor = CursorRight
    /\ mouse_input.just_pressed = {"Left"}
    /\ ~frame.pointer_over_egui
    /\ cams[1].enabled /\ cams[2].enabled
    /\ active_cam.entity = Some(2)
    /\ ~active_cam.manual
    /\ cams[2].target_alpha # 0
    /\ cams[1].target_alpha = 0 /\ cams[1].initialized

\* camera t is under the pointer and drawn over every other camera under it
TopUnderPointer(t) ==
    /\ t \in PointerCameras
    /\ \A o \in PointerCameras \ {t} : cams[o].order < cams[t].order

\* C25: in a frame with input the resolver counts, a camera with
\* enabled = false whose viewport strictly contains the pointer and whose draw
\* order is the highest there is written as the record's entity, and no camera
\* accepts input in that frame: no target of any camera, the enabled camera
\* under the same pointer included, is changed by input
C25_DisabledCameraStillSelected ==
    [][\A t \in DOMAIN cams :
          (Tick /\ RelevantInput /\ ~active_cam.manual
                /\ TopUnderPointer(t) /\ ~cams[t].enabled)
              => /\ active_cam.entity = Some(t)
                 /\ MovedFrom(Initialize) = {}
                 /\ \A e \in DOMAIN cams : ~AcceptsInput(cams[e], e)]_vars

\* an orbit drag pressed on the right half, where the disabled camera 2 is
\* drawn over the enabled camera 1: the record names camera 2 and neither
\* camera has turned
C25_Witness ==
    /\ AfterTick
    /\ cursor = CursorRight
    /\ mouse_input.just_pressed = {"Left"}
    /\ frame.mouse_delta # Vec2Zero
    /\ ~frame.pointer_over_egui
    /\ cams[1].enabled /\ ~cams[2].enabled
    /\ cams[1].initialized /\ cams[2].initialized
    /\ active_cam = [entity |-> Some(2), viewport_size |-> Some(<<400, 600>>),
                     window_size |-> Some(WindowSize), manual |-> FALSE]
    /\ cams[1].target_alpha = 0 /\ cams[1].target_beta = 0
    /\ cams[2].target_alpha = 0 /\ cams[2].target_beta = 0

\* ------------------------------------------------------------------------
\* The current values and the limits (Spec)
\* ------------------------------------------------------------------------

\* C26 as stated: after initialization, with fixed limits, the current values
\* are within the configured limits at the end of every tick: alpha within the
\* alpha limits, beta within the beta limits, radius and, for an orthographic
\* camera, scale within the zoom limits
C26_CurrentValuesWithinLimits ==
    AfterTick =>
        \A e \in DOMAIN cams :
            (cams[e].initialized /\ AllSome(cams[e]))
                => LET c == cams[e]
                   IN /\ InPair(Unwrap(c.alpha), c.alpha_lower_limit, c.alpha_upper_limit)
                      /\ InPair(Unwrap(c.beta), c.beta_lower_limit, c.beta_upper_limit)
                      /\ InPair(Unwrap(c.radius), c.zoom_lower_limit, c.zoom_upper_limit)
                      /\ IsOrthographic(c) =>
                             InPair(Unwrap(c.scale), c.zoom_lower_limit, c.zoom_upper_limit)

\* ------------------------------------------------------------------------
\* Events of a frame in which no camera accepted input (SpecZoom)
\* ------------------------------------------------------------------------

\* the frame of the tick delivered no wheel, pinch or rotate event and no
\* pointer motion under a button
NothingNewThisFrame ==
    /\ events.scroll_new = <<>> /\ events.magnify_new = <<>> /\ events.rotate_new = <<>>
    /\ mouse_input.pressed = {} \/ frame.mouse_delta = Vec2Zero

\* C27 as stated: wheel, pinch and rotate events that arrived in a frame where
\* no camera accepted input change no camera's targets in a later frame: in a
\* tick of a frame that itself delivered nothing, after a frame in which no
\* camera accepted input, no target of any camera is changed by input
C27_GatedInputDiscarded ==
    [][(Tick /\ events.unread_old /\ NothingNewThisFrame)
           => MovedFrom(Initialize) = {}]_vars

====
